---- MODULE Spec2Model ----
(***************************************************************************)
(* A model of entwiner: the multi-source Dijkstra search of                *)
(* EdgeDB.shortest_path (entwiner/database.py) and the batched edge/node   *)
(* ingestion of the GeoPackage-backed graph (entwiner/geopackage,          *)
(* entwiner/geopackagenetwork, entwiner/graphs/digraphdb).                 *)
(*                                                                         *)
(* An optional Python value (None or a number / a key) is a sequence of    *)
(* length 0 or 1: None is <<>>, the number k is <<k>>.                     *)
(***************************************************************************)
EXTENDS Integers, Sequences, FiniteSets, TLC

VARIABLES
    graph,      \* the edges table seen through cost_fun: (v, u) -> optional cost
    sources,    \* shortest_path argument: list of source node ids
    cutoff,     \* shortest_path argument: optional cumulative-cost cutoff
    target,     \* shortest_path argument: optional target node id
    st,         \* the locals of the running shortest_path call
    ref,        \* the locals of the same call on the graph without impassable edges
    db,         \* the container as the one connection sees it (uncommitted writes included)
    disk,       \* the container as last committed
    call,       \* the ingestion call in progress and its local queues
    last,       \* how the last finished call ended: "none", "ok" or "error"; after
                \* an operation on a view or an edge object, "ok" or the class of
                \* the exception it raised
    ncalls,     \* calls begun so far
    nfed,       \* edges fed to ingestion calls so far
    failed,     \* history: <<table, fid>> of the rows a failed executemany had written
    res,        \* the outcome of the last query or update; before is history:
                \* the rows of the table when an update was called, the store
                \* and the edge object when a view or an edge object was used
    nidx,       \* add_rtree / drop_rtree calls so far
    nupd,       \* update calls so far
    added,      \* history: the (u, v) pairs of the add_edges_from calls that returned
    build,      \* a GraphBuilder run: its position, its caller, and the file at
                \* the output path before the run (history) and now
    edge        \* the edge object a caller holds: its class, its (u, v) identity
                \* and its deferred in-memory buffer

spvars == <<graph, sources, cutoff, target, st, ref>>
dbvars == <<db, disk, call, last, ncalls, nfed, failed>>
qvars == <<res, nidx, nupd, edge, added, build>>

vars == <<spvars, dbvars, qvars>>

(***************************************************************************)
(* Bounds of the model.                                                    *)
(***************************************************************************)
MaxGeom == 1
MaxCoord == 2
MaxWrites == 2
MaxIndexOps == 4
MaxDistance == 3
MaxUpdates == 2
MaxFid == 2
NumKeys == 2
MaxValue == 2
MaxBatch == 2
MaxCalls == 2
MaxFed == 3
NumNodes == 3
MaxEdges == 3
MaxCost == 1
NegCosts == 1
MaxCutoff == 1
MaxSources == 2

None == <<>>
Some(x) == <<x>>

Nodes == 1..NumNodes
Pairs == Nodes \X Nodes
\* what cost_fun may return for an edge: None (impassable) or a number
CostValues == {None} \cup {Some(k) : k \in (0 - NegCosts)..MaxCost}
Graphs == UNION {[P -> CostValues] : P \in {Q \in SUBSET Pairs : Cardinality(Q) <= MaxEdges}}
\* node ids are interchangeable: source lists are taken up to renaming of the nodes
SourceLists == {s \in UNION {[1..n -> Nodes] : n \in 1..MaxSources} :
                    \A i \in 1..Len(s) : s[i] <= i}
\* a cutoff may lie below every cost, so the range starts one below the least cost
CutoffChoices == {None} \cup {Some(k) : k \in (0 - NegCosts - 1)..MaxCutoff}
TargetChoices == {None} \cup {Some(n) : n \in Nodes}

EmptyMap == [x \in {} |-> 0]
Put(f, k, val) == (k :> val) @@ f

(***************************************************************************)
(* EdgeDB.__getitem__: the successors of v, one entry per neighbour.       *)
(***************************************************************************)
Successors(g, v) == {u \in Nodes : <<v, u>> \in DOMAIN g}

\* the graph with every edge removed for which cost_fun returns None
Passable(g) == [p \in {q \in DOMAIN g : g[q] # None} |-> g[p]]

(***************************************************************************)
(* The fringe is a heapq of (distance, count, node): heappop takes the     *)
(* least tuple, and the counts are distinct.                               *)
(***************************************************************************)
HeapLess(e, f) == e[1] < f[1] \/ (e[1] = f[1] /\ e[2] < f[2])
\* a heap ordered by insertion count alone
HeapMin_ByCount(fringe) == CHOOSE e \in fringe : \A f \in fringe \ {e} : e[2] < f[2]

HeapMin(fringe) == CHOOSE e \in fringe : \A f \in fringe \ {e} : HeapLess(e, f)

SeedEntries(srcs) == {<<0, i - 1, srcs[i]>> : i \in 1..Len(srcs)}
Range(s) == {s[i] : i \in 1..Len(s)}

Idle ==
    [pc |-> "start", v |-> None, u |-> None, todo |-> {},
     dist |-> EmptyMap, seen |-> EmptyMap, paths |-> EmptyMap, pred |-> EmptyMap,
     fringe |-> {}, c |-> 0, outcome |-> "running"]

\* lines 158-182: paths, pred, seen and the fringe are seeded from the sources
Seed(s, srcs) ==
    [s EXCEPT !.pc = "loop",
              !.paths = [n \in Range(srcs) |-> <<n>>],
              !.pred = [n \in Range(srcs) |-> <<>>],
              !.seen = [n \in Range(srcs) |-> 0],
              !.fringe = SeedEntries(srcs),
              !.c = Len(srcs)]

\* lines 214-222: the return statement; NoPath is not a name bound in database.py,
\* so evaluating `raise NoPath(...)` raises NameError
Return(s, tgt) ==
    IF tgt = None THEN [s EXCEPT !.pc = "done", !.outcome = "return"]
    ELSE IF tgt[1] \in DOMAIN s.dist /\ tgt[1] \in DOMAIN s.paths
         THEN [s EXCEPT !.pc = "done", !.outcome = "return"]
         ELSE [s EXCEPT !.pc = "done", !.outcome = "NameError"]

\* a popped node that is never taken for finalized
Stale_Never(s, e) == FALSE

\* line 185: if v in dist: continue  # already searched this node.
Stale(s, e) == e[3] \in DOMAIN s.dist

\* the least entry read and left in the heap
heappop_Peek(fringe, e) == fringe

\* line 184: pop(fringe) takes the least entry out of the heap
heappop(fringe, e) == fringe \ {e}

\* lines 184-189: one iteration of the while loop up to the for loop
Pop(s, g, tgt) ==
    LET e == HeapMin(s.fringe)
        rest == [s EXCEPT !.fringe = heappop(@, e), !.u = None]
    IN  IF Stale(s, e) THEN rest
        ELSE LET fin == [rest EXCEPT !.dist = Put(@, e[3], e[1]), !.v = Some(e[3])]
             IN  IF tgt = Some(e[3]) THEN Return(fin, tgt)
                 ELSE [fin EXCEPT !.todo = Successors(g, e[3])]

\* an impassable edge taken as free
CostFun_NoneIsZero(g, v, u) == IF g[<<v, u>>] = None THEN Some(0) ELSE g[<<v, u>>]

\* line 191: cost = cost_fun(v, u, e)
CostFun(g, v, u) == g[<<v, u>>]

\* a cutoff that also excludes a distance equal to it
OverCutoff_Strict(cut, vu_dist) == cut # None /\ vu_dist >= cut[1]

\* lines 196-197: if cutoff is not None: if vu_dist > cutoff
OverCutoff(cut, vu_dist) == cut # None /\ vu_dist > cut[1]

\* the check for contradictory paths left out
Contradicts_Never(s, u, vu_dist) == FALSE

\* line 200: if vu_dist < dist[u] (u is finalized)
Contradicts(s, u, vu_dist) == vu_dist < s.dist[u]

\* line 203: elif u not in seen or vu_dist < seen[u]
Improves(s, u, vu_dist) == u \notin DOMAIN s.seen \/ vu_dist < s.seen[u]

\* tie tracking left out
Ties_Never(s, u, vu_dist) == FALSE

\* line 210: elif vu_dist == seen[u]
Ties(s, u, vu_dist) == vu_dist = s.seen[u]

\* a path that keeps only the last edge
NewPath_LastEdge(s, v, u) == <<v, u>>

\* line 207: paths[u] = paths[v] + [u]
NewPath(s, v, u) == Append(s.paths[v], u)

\* lines 190-212: the body of the for loop for the successor u of v
RelaxEdge(s, g, cut, u) ==
    LET v == s.v[1]
        cost == CostFun(g, v, u)
        t == [s EXCEPT !.todo = @ \ {u}, !.u = Some(u)]
    IN  IF cost = None THEN t
        ELSE LET vu_dist == s.dist[v] + cost[1]
             IN  IF OverCutoff(cut, vu_dist) THEN t
                 ELSE IF u \in DOMAIN s.dist
                      THEN IF Contradicts(s, u, vu_dist)
                           THEN [t EXCEPT !.pc = "done", !.outcome = "ValueError"]
                           ELSE t
                 ELSE IF Improves(s, u, vu_dist)
                      THEN [t EXCEPT !.seen = Put(@, u, vu_dist),
                                     !.fringe = @ \cup {<<vu_dist, s.c, u>>},
                                     !.c = @ + 1,
                                     !.paths = Put(@, u, NewPath(s, v, u)),
                                     !.pred = Put(@, u, <<v>>)]
                 ELSE IF Ties(s, u, vu_dist)
                      THEN [t EXCEPT !.pred = Put(@, u, Append(s.pred[u], v))]
                      ELSE t

(***************************************************************************)
(* The GeoPackage container.  A Python value is [type, val]; a table is    *)
(* [rows, cols]; a row is [fid, key, geom, attrs] with key <<_u, _v>> in   *)
(* edges and <<_n>> in nodes, and attrs a value for every attribute column.*)
(***************************************************************************)
Val(t, x) == [type |-> t, val |-> x]
NullV == Val("NoneType", 0)
IntValues == {Val("int", k) : k \in 1..MaxValue}
\* a value no column type and no SQLite binding exists for (a list)
ListV == Val("list", 0)
LineString == Val("LineString", 0)
Point == Val("Point", 0)

Keys == 1..NumKeys
AttrNames == {"w"}
\* an edge as the caller gives it: (u, v, d), d with or without geom and attributes
EdgeDicts == UNION {[D -> IntValues \cup {ListV, LineString}] : D \in SUBSET ({"geom"} \cup AttrNames)}
EdgeInputs == {e \in [u : Keys, v : Keys, d : EdgeDicts] :
                  \A k \in DOMAIN e.d : (k = "geom") <=> (e.d[k] = LineString)}
BatchSizes == 1..MaxBatch

\* geopackage/feature_table.py lines 13-17
COL_TYPE_MAP == [t \in {"str", "int", "float"} |->
                    IF t = "str" THEN "TEXT" ELSE IF t = "int" THEN "INTEGER" ELSE "DOUBLE"]
\* the Python types sqlite3 binds as a parameter
Bindable(x) == x.type \in {"NoneType", "int", "float", "str", "bytes"}
\* edge_table.py line 13 and the default of write_features
DEFAULT_BATCH_SIZE == 10000

\* feature_table.py lines 586-590: the header and the WKB of the geometry, as bytes
\* The geometry val is its position: LineString k runs from (k, 0) to (k + 1, 0)
\* and Point k lies at (k, 0).  The bytes keep the WKB type code and the position.
SerializeGeometry(g) == Val("bytes", 10 * g.val + (IF g.type = "Point" THEN 1 ELSE 2))

\* feature_table.py lines 592-596
DeserializeGeometry(b) == Val(IF b.val % 10 = 1 THEN "Point" ELSE "LineString", b.val \div 10)

Box(x1, x2, y1, y2) == [minX |-> x1, maxX |-> x2, minY |-> y1, maxY |-> y2]

\* MbrMinX ... MbrMaxY / ST_MinX ... ST_MaxY of a stored geometry; of NULL they
\* are NULL, which the R-tree stores as 0
Mbr(b) ==
    IF b = NullV THEN Box(0, 0, 0, 0)
    ELSE IF b.val % 10 = 1 THEN Box(b.val \div 10, b.val \div 10, 0, 0)
    ELSE Box(b.val \div 10, b.val \div 10 + 1, 0, 0)

\* a feature table: its rows and attribute columns, the entries of its R-tree
\* table rtree_<name>_geom (has_rtree: the table exists) and whether its six
\* R-tree triggers exist
EmptyTable == [rows |-> {}, cols |-> EmptyMap, rtree |-> {}, has_rtree |-> FALSE,
               triggers |-> FALSE]
\* GeoPackageNetwork.__init__: both tables exist, with their key columns and
\* unique indices; ext holds the table names of the gpkg_rtree_index rows of
\* gpkg_extensions
EmptyDb == [edges |-> EmptyTable, nodes |-> EmptyTable, ext |-> {}]

SetMax(S) == CHOOSE x \in S : \A y \in S : y <= x
NextFid(tbl) == IF tbl.rows = {} THEN 1 ELSE SetMax({r.fid : r \in tbl.rows}) + 1

\* feature_table.py lines 615-627, one row: REPLACE INTO t (columns) VALUES (...).
\* The row takes the next rowid; the row that holds the same key in the unique
\* index (edges_uv_index, nodes_n_index) is deleted.
\* feature_table.py lines 313-329: the trigger rtree_<name>_geom_insert
InsertTrigger(tbl, fid, geom) ==
    IF tbl.triggers /\ geom # NullV
    THEN {e \in tbl.rtree : e.id # fid} \cup {[id |-> fid, box |-> Mbr(geom)]}
    ELSE tbl.rtree

\* feature_table.py lines 615-627, one row: REPLACE INTO t (columns) VALUES (...).
\* The row takes the next rowid; the row that holds the same key in the unique
\* index (edges_uv_index, nodes_n_index) is deleted, and for that row no delete
\* trigger fires (recursive_triggers is off); the insert trigger fires for the
\* new row.
Replace_Append(tbl, q) ==
    [tbl EXCEPT !.rows = @ \cup {[fid |-> NextFid(tbl), key |-> q.key,
                                   geom |-> q.geom, attrs |-> q.attrs]},
                !.rtree = InsertTrigger(tbl, NextFid(tbl), q.geom)]
Replace(tbl, q) ==
    [tbl EXCEPT !.rows = {r \in @ : r.key # q.key} \cup
                         {[fid |-> NextFid(tbl), key |-> q.key,
                           geom |-> q.geom, attrs |-> q.attrs]},
                !.rtree = InsertTrigger(tbl, NextFid(tbl), q.geom)]

\* a statement on a table whose triggers name a dropped R-tree table cannot be
\* prepared (no such table)
Prepares(tbl) == tbl.triggers => tbl.has_rtree

\* conn.executemany: the rows are written in order; a value that cannot be bound
\* raises and leaves the rows before it written in the open transaction
RECURSIVE ExecuteMany(_, _, _)
ExecuteMany(w, t, queue) ==
    IF queue = <<>> \/ ~w.ok THEN w
    ELSE LET q == Head(queue)
         IN  IF ~Bindable(q.geom) \/ \E c \in DOMAIN q.attrs : ~Bindable(q.attrs[c])
             THEN [w EXCEPT !.ok = FALSE]
             ELSE ExecuteMany([w EXCEPT !.db[t] = Replace(@, q),
                                        !.written = @ \cup {<<t, NextFid(w.db[t])>>}],
                              t, Tail(queue))

\* the keys of the edges of the container d with an endpoint that is no node of d
Orphans(d) ==
    {r.key : r \in {x \in d.edges.rows :
                      \E k \in 1..2 : \A n \in d.nodes.rows : n.key # <<x.key[k]>>}}

\* geopackage.py lines 686-691: leaving the with block commits; an exception
\* inside the block skips the commit, and nothing rolls back.  orphans keeps
\* what each commit of the call made durable without its endpoints.
Commit(w) ==
    IF w.ok THEN [w EXCEPT !.disk = w.db, !.orphans = @ \cup Orphans(w.db)] ELSE w

\* feature_table.py lines 479-487: leaving the with block of write_queues; a
\* failed executemany leaves its rows written and uncommitted
EndWrite(r) == IF r.ok THEN Commit(r) ELSE [r EXCEPT !.failed = @ \cup r.written]

\* feature_table.py lines 478-487: write_queues.  Building the template reads
\* the column names in a with block of its own (lines 615-627, 533-541).
\* feature_table.py lines 486-487: counter.update(n) once the with block is
\* left; edge_table.py lines 13-14 and 32-33 hand the counter to the writes of
\* the edges only
Count_Before(r, t, n) ==
    IF r.counter /\ t = "edges" THEN [r EXCEPT !.counts = Append(@, n)] ELSE r
Count(r, t, n) ==
    IF r.ok /\ r.counter /\ t = "edges" THEN [r EXCEPT !.counts = Append(@, n)] ELSE r

\* the rows of the edges table that the executemany wrote and the with block
\* committed
Batch(r, t) ==
    IF r.ok /\ t = "edges"
    THEN [r EXCEPT !.batches = Append(@, Cardinality({x \in r.written : x[1] = t}))]
    ELSE r

WriteQueues(w, t, queue) ==
    Count(Batch(EndWrite(ExecuteMany([Commit(w) EXCEPT !.written = {},
                                                       !.ok = Prepares(w.db[t])],
                                     t, queue)),
                t),
          t, Len(queue))

\* the queue of the locals ls is written and emptied when cond holds
Flush(ls, t, cond) ==
    IF ls.w.ok /\ cond
    THEN [ls EXCEPT !.w = WriteQueues(ls.w, t, ls.queue), !.queue = <<>>]
    ELSE ls

\* feature_table.py lines 526-531: ALTER TABLE ... ADD COLUMN for each, then the commit
AddFeatureTableColumns_Zero(w, t, new_columns) ==
    Commit([w EXCEPT !.db[t].cols = new_columns @@ @,
                     !.db[t].rows = {[r EXCEPT !.attrs = [c \in DOMAIN new_columns |-> Val("int", 0)] @@ @]
                                       : r \in @}])
AddFeatureTableColumns(w, t, new_columns) ==
    Commit([w EXCEPT !.db[t].cols = new_columns @@ @,
                     !.db[t].rows = {[r EXCEPT !.attrs = [c \in DOMAIN new_columns |-> NullV] @@ @]
                                       : r \in @}])

\* feature_table.py lines 580-582: haversine(coordinates), the length of the
\* geometry; LineString k is one unit long
Haversine(g) == Val("float", IF g.type = "LineString" THEN 1 ELSE 0)

\* feature_table.py lines 568-584: the values of a feature for the columns; a
\* feature with a geometry gets the length of the geometry in the column _length
RowValues_NoLength(column_names, f) ==
    [key |-> f.key,
     geom |-> IF "geom" \in DOMAIN f.d THEN SerializeGeometry(f.d["geom"]) ELSE NullV,
     attrs |-> [c \in column_names |-> IF c \in DOMAIN f.d THEN f.d[c] ELSE NullV]]
RowValues(column_names, f) ==
    [key |-> f.key,
     geom |-> IF "geom" \in DOMAIN f.d THEN SerializeGeometry(f.d["geom"]) ELSE NullV,
     attrs |-> [c \in column_names |->
                  IF "geom" \in DOMAIN f.d /\ c = "_length" THEN Haversine(f.d["geom"])
                  ELSE IF c \in DOMAIN f.d THEN f.d[c] ELSE NullV]]

\* feature_table.py lines 495-502: the keys of the feature that are no column yet
NewKeys(column_names, f) ==
    {k \in DOMAIN f.d \ {"geom", "fid"} : k \notin column_names /\ f.d[k] # NullV}

\* feature_table.py lines 562-566: _column_type raises ValueError for a value
\* that is no str, int or float
InvalidColumnType(f, new) == \E k \in new : f.d[k].type \notin DOMAIN COL_TYPE_MAP

\* feature_table.py lines 508-510: the new columns are added, to the table and
\* to the local column names
AddNew(ls, t, f, new) ==
    IF ~ls.w.ok THEN ls
    ELSE [ls EXCEPT !.w = AddFeatureTableColumns(ls.w, t,
                                [k \in new |-> COL_TYPE_MAP[f.d[k].type]]),
                    !.column_names = @ \cup new]

\* feature_table.py lines 512-514
Enqueue(ls, f) ==
    IF ~ls.w.ok THEN ls ELSE [ls EXCEPT !.queue = Append(@, RowValues(ls.column_names, f))]

\* feature_table.py lines 495-514: what write_features does with a feature
\* once a full queue is written
AddFeature(ls, t, f, new) ==
    IF ~ls.w.ok THEN ls
    ELSE IF InvalidColumnType(f, new) THEN [ls EXCEPT !.w.ok = FALSE]
    ELSE IF new = {} THEN Enqueue(ls, f)
    ELSE Enqueue(AddNew(Flush(ls, t, ls.queue # <<>>), t, f, new), f)

\* feature_table.py lines 490-514: one iteration of the loop of write_features;
\* ls holds the locals: w (connection), queue, column_names
FTStep(ls, t, f, batch_size) ==
    AddFeature(Flush(ls, t, Len(ls.queue) > batch_size), t, f, NewKeys(ls.column_names, f))

RECURSIVE FTLoop(_, _, _, _)
FTLoop(ls, t, features, batch_size) ==
    IF features = <<>> THEN ls
    ELSE FTLoop(FTStep(ls, t, Head(features), batch_size), t, Tail(features), batch_size)

\* feature_table.py lines 476 and 489: the locals before the loop; reading the
\* column names is a with block of its own, so it commits what is pending
Locals(w, t) == [w |-> Commit(w), queue |-> <<>>, column_names |-> DOMAIN w.db[t].cols]

\* the features still queued when the input ends are dropped
WriteStragglers_Skip(ls, t) == ls.w

\* feature_table.py lines 516-517
WriteStragglers(ls, t) == IF ~ls.w.ok THEN ls.w ELSE WriteQueues(ls.w, t, ls.queue)

\* feature_table.py lines 475-517: FeatureTable.write_features
WriteFeatures(w, t, features, batch_size) ==
    IF ~w.ok THEN w
    ELSE WriteStragglers(FTLoop(Locals(w, t), t, features, batch_size), t)

\* edge_table.py lines 20-28: the Point at the first (k = 0) or last (k = 1)
\* coordinate of the geometry of the edge, when it has one
EndPoint(f, k) ==
    IF "geom" \in DOMAIN f.d
    THEN [c \in {"geom"} |-> Val("Point", f.d["geom"].val + k)]
    ELSE EmptyMap

\* edge_table.py lines 18-30: the two endpoint features of an edge feature
NodeFeatures(f) ==
    <<[key |-> <<f.key[1]>>, d |-> EndPoint(f, 0)], [key |-> <<f.key[2]>>, d |-> EndPoint(f, 1)]>>

\* a queue taken for full only once it holds more than batch_size features
Full_Over(queue, batch_size) == Len(queue) > batch_size

\* edge_table.py line 12: if len(ways_queue) >= batch_size
Full(queue, batch_size) == Len(queue) >= batch_size

\* edge_table.py lines 12-16: full queues are written, the ways before their nodes
ETFlush(es, batch_size) ==
    IF es.w.ok /\ Full(es.ways_queue, batch_size)
    THEN [es EXCEPT
            !.w = WriteFeatures(WriteFeatures(es.w, "edges", es.ways_queue,
                                              DEFAULT_BATCH_SIZE),
                                "nodes", es.nodes_queue, DEFAULT_BATCH_SIZE),
            !.ways_queue = <<>>, !.nodes_queue = <<>>]
    ELSE es

\* edge_table.py lines 17-30
ETEnqueue(es, f) ==
    IF ~es.w.ok THEN es
    ELSE [es EXCEPT !.ways_queue = Append(@, f), !.nodes_queue = @ \o NodeFeatures(f)]

\* edge_table.py lines 11-30: one iteration of EdgeTable.write_features;
\* es holds the locals: w (connection), ways_queue, nodes_queue
ETStep(es, f, batch_size) == ETEnqueue(ETFlush(es, batch_size), f)

\* edge_table.py lines 32-33: the nodes of the stragglers, then the stragglers
ETEnd(es, batch_size) ==
    WriteFeatures(WriteFeatures(es.w, "nodes", es.nodes_queue, DEFAULT_BATCH_SIZE),
                  "edges", es.ways_queue, batch_size)

RECURSIVE ETLoop(_, _, _)
ETLoop(es, features, batch_size) ==
    IF features = <<>> THEN es
    ELSE ETLoop(ETStep(es, Head(features), batch_size), Tail(features), batch_size)

\* edge_table.py lines 5-33: EdgeTable.write_features on a list
EdgeTableWriteFeatures(w, features, batch_size) ==
    ETEnd(ETLoop([w |-> w, ways_queue |-> <<>>, nodes_queue |-> <<>>], features, batch_size),
          batch_size)

\* geopackagenetwork/__init__.py lines 120-121 and 180-181: both queues are written
WriteEdgeAndNodeQueues(w, edge_queue, node_queue, batch_size) ==
    WriteFeatures(EdgeTableWriteFeatures(w, edge_queue, batch_size),
                  "nodes", node_queue, batch_size)

\* geopackagenetwork/__init__.py lines 119-123
AddEdgesFlush(gs, batch_size) ==
    IF Len(gs.edge_queue) > batch_size
    THEN [gs EXCEPT !.w = WriteEdgeAndNodeQueues(gs.w, gs.edge_queue, gs.node_queue,
                                                 batch_size),
                    !.edge_queue = <<>>, !.node_queue = <<>>]
    ELSE gs

\* geopackagenetwork/__init__.py lines 125-178: the edge and, when it has a
\* geometry, its endpoints are queued
AddEdgesEnqueue(gs, f) ==
    IF ~gs.w.ok THEN gs
    ELSE [gs EXCEPT !.edge_queue = Append(@, f),
                    !.node_queue = IF "geom" \in DOMAIN f.d THEN @ \o NodeFeatures(f) ELSE @]

\* geopackagenetwork/__init__.py lines 118-178: one iteration of add_edges;
\* gs holds the locals: w (connection), edge_queue, node_queue
AddEdgesStep(gs, e, batch_size) ==
    AddEdgesEnqueue(AddEdgesFlush(gs, batch_size), [key |-> <<e.u, e.v>>, d |-> e.d])

(***************************************************************************)
(* Ingestion calls.  The edges of a call arrive one at a time (ebunch is   *)
(* iterated lazily), so a call is a begin step, one step per edge and the  *)
(* step that writes the stragglers.                                        *)
(***************************************************************************)
NoResult == [op |-> "none", t |-> "edges", arg |-> <<>>, ok |-> TRUE, rows |-> <<>>,
             before |-> {}]
\* what the caller of a query or an update on table t gets
Outcome(op, t, arg, r) ==
    [op |-> op, t |-> t, arg |-> arg, ok |-> r.ok, rows |-> r.rows, before |-> {}]
\* what the caller of an operation without a result gets: it returned or raised
Ended(op, t, w) ==
    [op |-> op, t |-> t, arg |-> <<>>, ok |-> w.ok, rows |-> <<>>, before |-> {}]

NoCall == [op |-> "idle", batch_size |-> 0, ways_queue |-> <<>>, nodes_queue |-> <<>>]

\* counter tells whether the call was given a counter, counts holds the
\* arguments of its counter.update calls, batches the number of edge rows of
\* each executemany the call committed
Conn == [db |-> db, disk |-> disk, ok |-> TRUE, failed |-> failed, written |-> {},
         counter |-> FALSE, counts |-> <<>>, batches |-> <<>>, orphans |-> {}]

\* the call goes on with the queues q1 and q2, or ends with the exception of w
Continue(w, q1, q2) ==
    /\ db' = w.db /\ disk' = w.disk /\ failed' = w.failed
    /\ IF w.ok
       THEN call' = [call EXCEPT !.ways_queue = q1, !.nodes_queue = q2] /\ last' = last
       ELSE call' = NoCall /\ last' = "error"

ContinueEdgeTable(es) == Continue(es.w, es.ways_queue, es.nodes_queue)
ContinueAddEdges(gs) == Continue(gs.w, gs.edge_queue, gs.node_queue)

Finish(w) ==
    /\ db' = w.db /\ disk' = w.disk /\ failed' = w.failed
    /\ call' = NoCall
    /\ last' = IF w.ok THEN "ok" ELSE "error"

\* graphs/digraphdb/__init__.py lines 139-162: DiGraphDB.add_edges_from.  Below
\* a batch size of 2 the call forwards to networkx with one positional argument
\* too many and raises TypeError.
AddEdgesFromBegin ==
    /\ call.op = "idle" /\ ncalls < MaxCalls
    /\ \E bs \in BatchSizes :
          IF bs < 2
          THEN call' = call /\ last' = "error"
          ELSE call' = [NoCall EXCEPT !.op = "add_edges_from", !.batch_size = bs]
               /\ last' = last
    /\ ncalls' = ncalls + 1
    /\ UNCHANGED <<db, disk, failed, nfed, spvars, qvars>>

AddEdgesFromFeed ==
    /\ call.op = "add_edges_from" /\ nfed < MaxFed
    /\ \E e \in EdgeInputs :
          ContinueEdgeTable(ETStep([w |-> Conn, ways_queue |-> call.ways_queue,
                                    nodes_queue |-> call.nodes_queue],
                                   [key |-> <<e.u, e.v>>, d |-> e.d], call.batch_size))
    /\ nfed' = nfed + 1
    /\ UNCHANGED <<ncalls, spvars, qvars>>

AddEdgesFromEnd ==
    /\ call.op = "add_edges_from"
    /\ Finish(ETEnd([w |-> Conn, ways_queue |-> call.ways_queue,
                     nodes_queue |-> call.nodes_queue], call.batch_size))
    /\ UNCHANGED <<ncalls, nfed, spvars, qvars>>

\* geopackagenetwork/__init__.py lines 101-181: GeoPackageNetwork.add_edges;
\* ways_queue holds edge_queue and nodes_queue holds node_queue
AddEdgesBegin ==
    /\ call.op = "idle" /\ ncalls < MaxCalls
    /\ \E bs \in BatchSizes :
          call' = [NoCall EXCEPT !.op = "add_edges", !.batch_size = bs]
    /\ ncalls' = ncalls + 1
    /\ UNCHANGED <<db, disk, failed, last, nfed, spvars, qvars>>

AddEdgesFeed ==
    /\ call.op = "add_edges" /\ nfed < MaxFed
    /\ \E e \in EdgeInputs :
          ContinueAddEdges(AddEdgesStep([w |-> Conn, edge_queue |-> call.ways_queue,
                                         node_queue |-> call.nodes_queue],
                                        e, call.batch_size))
    /\ nfed' = nfed + 1
    /\ UNCHANGED <<ncalls, spvars, qvars>>

AddEdgesEnd ==
    /\ call.op = "add_edges"
    /\ Finish(WriteEdgeAndNodeQueues(Conn, call.ways_queue, call.nodes_queue,
                                     call.batch_size))
    /\ UNCHANGED <<ncalls, nfed, spvars, qvars>>

(***************************************************************************)
(* The spatial index of a feature table.                                   *)
(***************************************************************************)
\* feature_table.py lines 268-290: the gpkg_extensions row is inserted only
\* when the table holds no gpkg_rtree_index row at all
Register(w, t) == [w EXCEPT !.db.ext = IF @ = {} THEN {t} ELSE @]

\* feature_table.py lines 301-311: an entry for every row, with or without a
\* geometry, whose fid has no entry yet (INSERT OR IGNORE)
Fill(tbl) ==
    tbl.rtree \cup {[id |-> r.fid, box |-> Mbr(r.geom)] :
                      r \in {x \in tbl.rows : \A e \in tbl.rtree : e.id # x.fid}}

\* feature_table.py lines 292-311: CREATE VIRTUAL TABLE IF NOT EXISTS, then the fill
CreateAndFill(w, t) == [w EXCEPT !.db[t].has_rtree = TRUE, !.db[t].rtree = Fill(w.db[t])]

\* feature_table.py lines 313-411: CREATE TRIGGER raises when the trigger
\* exists; what the statements before it wrote stays in the open transaction
CreateTriggers(w, t) ==
    IF w.db[t].triggers THEN [w EXCEPT !.ok = FALSE]
    ELSE Commit([w EXCEPT !.db[t].triggers = TRUE])

\* feature_table.py lines 265-411: FeatureTable.add_rtree
AddRtreeOn(w, t) == CreateTriggers(CreateAndFill(Register(w, t), t), t)

\* feature_table.py lines 442-473: FeatureTable.drop_rtree.  The first DROP TABLE
\* removes the R-tree table with its shadow tables, so the second raises; without
\* the table the first raises.  The triggers and the gpkg_extensions row stay.
\* A DROP outside a pending transaction is committed at once.
DropRtreeOn(w, t) ==
    IF ~w.db[t].has_rtree THEN [w EXCEPT !.ok = FALSE]
    ELSE [w EXCEPT !.db[t].has_rtree = FALSE, !.db[t].rtree = {},
                   !.disk = IF w.db = w.disk
                            THEN [w.db EXCEPT ![t].has_rtree = FALSE, ![t].rtree = {}]
                            ELSE @,
                   !.ok = FALSE]

TableNames == {"edges", "nodes"}

AddRtree ==
    /\ call.op = "idle" /\ nidx < MaxIndexOps
    /\ \E t \in TableNames :
          Finish(AddRtreeOn(Conn, t)) /\ res' = Ended("add_rtree", t, AddRtreeOn(Conn, t))
    /\ nidx' = nidx + 1
    /\ UNCHANGED <<ncalls, nfed, nupd, edge, added, build, spvars>>

DropRtree ==
    /\ call.op = "idle" /\ nidx < MaxIndexOps
    /\ \E t \in TableNames :
          Finish(DropRtreeOn(Conn, t)) /\ res' = Ended("drop_rtree", t, DropRtreeOn(Conn, t))
    /\ nidx' = nidx + 1
    /\ UNCHANGED <<ncalls, nfed, nupd, edge, added, build, spvars>>

\* build.py lines 32-38: GraphBuilder.finalize_db indexes the edges, then the
\* nodes; an exception of the first call ends it
FinalizeDbOn(w) ==
    IF AddRtreeOn(w, "edges").ok
    THEN AddRtreeOn(AddRtreeOn(w, "edges"), "nodes")
    ELSE AddRtreeOn(w, "edges")

FinalizeDb ==
    /\ call.op = "idle" /\ nidx + 2 <= MaxIndexOps
    /\ Finish(FinalizeDbOn(Conn))
    /\ nidx' = nidx + 2
    /\ res' = NoResult
    /\ UNCHANGED <<ncalls, nfed, nupd, edge, added, build, spvars>>

\* edges with a geometry at one of the positions 0..MaxGeom
Geometries == {Val("LineString", k) : k \in 0..MaxGeom}
GeoDicts == {EmptyMap} \cup {[c \in {"geom"} |-> g] : g \in Geometries}
GeoEdgeInputs == [u : Keys, v : Keys, d : GeoDicts]

\* graphs/digraphdb/__init__.py line 139: the default _batch_size
ADD_EDGES_BATCH_SIZE == 1000

\* graphs/digraphdb/__init__.py lines 139-162: add_edges_from([e]), a whole call
\* the written edge and the rows before it are kept as history when asked for
AddOneEdgeFrom(inputs, history) ==
    /\ call.op = "idle" /\ ncalls < MaxWrites
    /\ \E e \in inputs :
        /\ Finish(EdgeTableWriteFeatures(Conn, <<[key |-> <<e.u, e.v>>, d |-> e.d]>>,
                                         ADD_EDGES_BATCH_SIZE))
        /\ res' = IF history
                  THEN [op |-> "add_edges_from", t |-> "edges", arg |-> <<e>>,
                        ok |-> last' = "ok", rows |-> <<>>, before |-> db.edges.rows]
                  ELSE NoResult
        /\ added' = IF last' = "ok" THEN added \cup {<<e.u, e.v>>} ELSE added
    /\ ncalls' = ncalls + 1
    /\ UNCHANGED <<nfed, nidx, nupd, edge, spvars>>

AddOneEdge == AddOneEdgeFrom(GeoEdgeInputs, FALSE) /\ UNCHANGED build

(***************************************************************************)
(* Spatial queries.                                                        *)
(***************************************************************************)
\* feature_table.py lines 140-143: the WHERE clause of the R-tree query
Overlaps(b, q) ==
    b.maxX >= q.minX /\ b.minX <= q.maxX /\ b.maxY >= q.minY /\ b.minY <= q.maxY

\* feature_table.py lines 136-147: the ids of the entries the R-tree returns
RtreeIds(tbl, q) == {e.id : e \in {x \in tbl.rtree : Overlaps(x.box, q)}}

\* feature_table.py lines 152-160: next(row) raises StopIteration when no row
\* has the id, _deserialize_geometry raises TypeError on a NULL geometry
Fetchable(tbl, i) == \E r \in tbl.rows : r.fid = i /\ r.geom # NullV

\* feature_table.py lines 606-613: FeatureTable.deserialize_row
DeserializeRow(r) == [r EXCEPT !.geom = DeserializeGeometry(r.geom)]

\* feature_table.py lines 149-162: the rows of the ids, in the order of the ids
RECURSIVE FetchRows(_, _)
FetchRows(tbl, ids) ==
    IF ids = {} THEN <<>>
    ELSE FetchRows(tbl, ids \ {SetMax(ids)}) \o
         <<DeserializeRow(CHOOSE r \in tbl.rows : r.fid = SetMax(ids))>>

\* feature_table.py lines 120-162: FeatureTable.intersects; the outcome is the
\* list of rows, or an exception (ok is FALSE) when the R-tree table is absent
\* or a row of an id cannot be fetched and deserialized
IntersectsOn(tbl, q) ==
    IF tbl.has_rtree /\ \A i \in RtreeIds(tbl, q) : Fetchable(tbl, i)
    THEN [ok |-> TRUE, rows |-> FetchRows(tbl, RtreeIds(tbl, q))]
    ELSE [ok |-> FALSE, rows |-> <<>>]

\* query boxes over the positions 0..MaxCoord, on the line y = 0 of the
\* geometries or on the line y = 1 beside it
QueryBoxes ==
    {Box(c[1], c[2], c[3], c[3]) : c \in
        {x \in (0..MaxCoord) \X (0..MaxCoord) \X (0..1) : x[2] \in {x[1], MaxCoord}}}

\* feature_table.py lines 135-147: leaving the first with-block commits what a
\* failed add_rtree left pending; the query raises when the table is absent
QueryCommit(tbl) == IF tbl.has_rtree THEN db ELSE disk

Intersects ==
    /\ call.op = "idle"
    /\ \E t \in TableNames, q \in QueryBoxes :
        /\ res' = Outcome("intersects", t, q, IntersectsOn(db[t], q))
        /\ disk' = QueryCommit(db[t])
    /\ last' = IF res'.ok THEN "ok" ELSE "error"
    /\ UNCHANGED <<db, call, ncalls, nfed, failed, nidx, nupd, edge, added, build, spvars>>

\* feature_table.py lines 38-40: the transformer into the projected frame; one
\* degree is UnitsPerDegree units of distance along both axes
UnitsPerDegree == 2
Project(c) == c * UnitsPerDegree

\* feature_table.py lines 182-194: the box of half-width distance around the
\* projected point.  The inverse transform divides its bounds by
\* UnitsPerDegree; the R-tree bounds are multiplied instead
SearchBox(lon, lat, distance) ==
    Box(Project(lon) - distance, Project(lon) + distance,
        Project(lat) - distance, Project(lat) + distance)
ProjectBox(b) == Box(Project(b.minX), Project(b.maxX), Project(b.minY), Project(b.maxY))
ProjectEntries(tbl) ==
    [tbl EXCEPT !.rtree = {[id |-> x.id, box |-> ProjectBox(x.box)] : x \in @}]

\* feature_table.py lines 164-196: FeatureTable.dwithin_rtree
DWithinRtree(tbl, lon, lat, distance) ==
    IntersectsOn(ProjectEntries(tbl), SearchBox(lon, lat, distance))

Max(a, b) == IF a >= b THEN a ELSE b
\* feature_table.py lines 224-228: the distance between the projected point and
\* the projected geometry of a row, squared (the geometries lie on y = 0)
GeomEnd(g) == IF g.type = "Point" THEN g.val ELSE g.val + 1
DistanceSq(g, lon, lat) ==
    Max(Max(Project(g.val) - Project(lon), Project(lon) - Project(GeomEnd(g))), 0)
      * Max(Max(Project(g.val) - Project(lon), Project(lon) - Project(GeomEnd(g))), 0)
    + Project(lat) * Project(lat)

\* feature_table.py line 232: sorted() is stable, a row goes behind the rows
\* that are as near as it is
RECURSIVE InsertByDistance(_, _, _, _)
InsertByDistance(sorted, r, lon, lat) ==
    IF sorted = <<>> THEN <<r>>
    ELSE IF DistanceSq(r.geom, lon, lat) < DistanceSq(Head(sorted).geom, lon, lat)
    THEN <<r>> \o sorted
    ELSE <<Head(sorted)>> \o InsertByDistance(Tail(sorted), r, lon, lat)

RECURSIVE SortByDistance(_, _, _)
SortByDistance(rows, lon, lat) ==
    IF rows = <<>> THEN <<>>
    ELSE InsertByDistance(SortByDistance(SubSeq(rows, 1, Len(rows) - 1), lon, lat),
                          rows[Len(rows)], lon, lat)

\* feature_table.py lines 233 and 235: d < distance
Near_Inclusive(r, lon, lat, distance) == DistanceSq(r.geom, lon, lat) <= distance * distance
Near(r, lon, lat, distance) == DistanceSq(r.geom, lon, lat) < distance * distance

RECURSIVE FilterNear(_, _, _, _)
FilterNear(rows, lon, lat, distance) ==
    IF rows = <<>> THEN <<>>
    ELSE (IF Near(Head(rows), lon, lat, distance) THEN <<Head(rows)>> ELSE <<>>)
         \o FilterNear(Tail(rows), lon, lat, distance)

\* feature_table.py lines 198-235: FeatureTable.dwithin on the rows the box
\* query returned
DWithinRows(rows, a) ==
    FilterNear(IF a.sort THEN SortByDistance(rows, a.lon, a.lat) ELSE rows,
               a.lon, a.lat, a.distance)

DWithinOn(found, a) ==
    [ok |-> found.ok, rows |-> DWithinRows(found.rows, a)]

\* the query points lie at the ends of the positions 0..MaxCoord, on y = 0 or
\* y = 1; the distances are in projected units
DWithinArgs ==
    [lon : {0, MaxCoord}, lat : 0..1, distance : (MaxDistance - 1)..MaxDistance,
     sort : BOOLEAN]

\* edge_table.py lines 35-37, node_table.py lines 6-8: dwithin
DWithin ==
    /\ call.op = "idle"
    /\ \E t \in TableNames, a \in DWithinArgs :
        /\ res' = Outcome("dwithin", t, a,
                          DWithinOn(DWithinRtree(db[t], a.lon, a.lat, a.distance), a))
        /\ disk' = QueryCommit(db[t])
    /\ last' = IF res'.ok THEN "ok" ELSE "error"
    /\ UNCHANGED <<db, call, ncalls, nfed, failed, nidx, nupd, edge, added, build, spvars>>

(***************************************************************************)
(* Updates.  An item of a bunch is [fid, key, d]: the primary key, the key *)
(* columns the ddict names (<<>> when it names none) and the other columns *)
(* of the ddict with their values.                                         *)
(***************************************************************************)
\* feature_table.py lines 533-541: the columns of the table but fid
ColumnNames_WithFid(tbl) == {"fid", "geom"} \cup DOMAIN tbl.cols
ColumnNames(tbl) == {"geom"} \cup DOMAIN tbl.cols

\* feature_table.py lines 543-559: the keys of the ddicts that are no column
NewColumnNames(tbl, bunch) ==
    UNION {DOMAIN bunch[i].d : i \in 1..Len(bunch)} \ ColumnNames(tbl)

\* feature_table.py lines 555-558: the first ddict that has the name gives the type
FirstWith(bunch, k) ==
    bunch[CHOOSE i \in 1..Len(bunch) :
            /\ k \in DOMAIN bunch[i].d
            /\ \A j \in 1..(i - 1) : k \notin DOMAIN bunch[j].d].d[k]

ColumnsToAdd(tbl, bunch) ==
    [k \in NewColumnNames(tbl, bunch) |-> COL_TYPE_MAP[FirstWith(bunch, k).type]]

\* feature_table.py lines 543-549, 562-566: _column_type raises ValueError for
\* the value of a new key that is no str, int or float, None included
InvalidNewColumn(tbl, bunch) ==
    \E i \in 1..Len(bunch) : \E k \in DOMAIN bunch[i].d \ ColumnNames(tbl) :
        bunch[i].d[k].type \notin DOMAIN COL_TYPE_MAP

\* feature_table.py lines 253-260: UPDATE t SET c = ?, ... WHERE fid = ?, on a row
SetRow_Overwrite(r, item) ==
    [r EXCEPT !.fid = IF "fid" \in DOMAIN item.d THEN item.d["fid"].val ELSE @,
              !.geom = IF "geom" \in DOMAIN item.d THEN item.d["geom"] ELSE NullV,
              !.key = IF item.key # <<>> THEN item.key ELSE @,
              !.attrs = [c \in DOMAIN @ |-> IF c \in DOMAIN item.d THEN item.d[c] ELSE NullV]]
SetRow(r, item) ==
    [r EXCEPT !.fid = IF "fid" \in DOMAIN item.d THEN item.d["fid"].val ELSE @,
              !.geom = IF "geom" \in DOMAIN item.d THEN item.d["geom"] ELSE @,
              !.key = IF item.key # <<>> THEN item.key ELSE @,
              !.attrs = [c \in DOMAIN @ |-> IF c \in DOMAIN item.d THEN item.d[c] ELSE @[c]]]

\* feature_table.py lines 330-365: the triggers update1 and update2 fire after
\* an UPDATE that sets geom
UpdateTrigger(tbl, item) ==
    IF tbl.triggers /\ "geom" \in DOMAIN item.d /\ \E r \in tbl.rows : r.fid = item.fid
    THEN {x \in tbl.rtree : x.id # item.fid} \cup
         (IF item.d["geom"] # NullV
          THEN {[id |-> item.fid, box |-> Mbr(item.d["geom"])]} ELSE {})
    ELSE tbl.rtree

UpdateOne(tbl, item) ==
    [tbl EXCEPT !.rows = {IF r.fid = item.fid THEN SetRow(r, item) ELSE r : r \in @},
                !.rtree = UpdateTrigger(tbl, item)]

\* feature_table.py lines 244-260: one UPDATE; without a column to set the
\* statement is no SQL, a value may not bind, and the triggers of a dropped
\* R-tree table keep the statement from being prepared
UpdateStep(w, t, item) ==
    IF \/ (item.key = <<>> /\ DOMAIN item.d = {})
       \/ \E c \in DOMAIN item.d : ~Bindable(item.d[c])
       \/ ~Prepares(w.db[t])
    THEN [w EXCEPT !.ok = FALSE]
    ELSE [w EXCEPT !.db[t] = UpdateOne(@, item)]

RECURSIVE ExecuteUpdates(_, _, _)
ExecuteUpdates(w, t, bunch) ==
    IF bunch = <<>> \/ ~w.ok THEN w
    ELSE ExecuteUpdates(UpdateStep(w, t, Head(bunch)), t, Tail(bunch))

\* feature_table.py lines 237-260: FeatureTable.update_batch.  zip(*bunch) of
\* an empty bunch raises ValueError; reading the column names commits.
\* feature_table.py lines 526-531: the key fid is no name of
\* _get_column_names, so it counts as a new column, and ALTER TABLE ADD COLUMN
\* 'fid' raises OperationalError (duplicate column name); the ddicts of the
\* model that name fid name no other new column.
UpdateBatchOn(w, t, bunch) ==
    IF bunch = <<>> THEN [w EXCEPT !.ok = FALSE]
    ELSE IF InvalidNewColumn(w.db[t], bunch) THEN [Commit(w) EXCEPT !.ok = FALSE]
    ELSE IF "fid" \in NewColumnNames(w.db[t], bunch) THEN [Commit(w) EXCEPT !.ok = FALSE]
    ELSE Commit(ExecuteUpdates(
                  AddFeatureTableColumns(Commit(w), t, ColumnsToAdd(w.db[t], bunch)),
                  t, bunch))

\* feature_table.py lines 598-604: FeatureTable.serialize_row
SerializeRow(d) ==
    [c \in DOMAIN d |-> IF c = "geom" THEN SerializeGeometry(d[c]) ELSE d[c]]

\* edge_table.py lines 45-49: fetchone() is None when no row has (u, v), and
\* None["fid"] raises TypeError
Found(tbl, ebunch) ==
    \A i \in 1..Len(ebunch) : \E r \in tbl.rows : r.key = <<ebunch[i].u, ebunch[i].v>>
FidOf(tbl, key) == (CHOOSE r \in tbl.rows : r.key = key).fid

\* edge_table.py lines 153-159: _table_format pops the key fid of the ddict
TableFormat(d) == [c \in DOMAIN d \ {"fid"} |-> d[c]]

\* edge_table.py lines 52-57: the fid of the row and the ddict of the edge
EdgeItems(tbl, ebunch) ==
    [i \in 1..Len(ebunch) |->
        [fid |-> FidOf(tbl, <<ebunch[i].u, ebunch[i].v>>),
         key |-> <<ebunch[i].u, ebunch[i].v>>,
         d |-> SerializeRow(TableFormat(ebunch[i].d))]]

\* edge_table.py lines 39-57: EdgeTable.update on a list of edges
EdgeUpdateOn(w, ebunch) ==
    IF ~Found(w.db["edges"], ebunch) THEN [w EXCEPT !.ok = FALSE]
    ELSE UpdateBatchOn(Commit(w), "edges", EdgeItems(w.db["edges"], ebunch))

\* the partial attribute sets of the updates: a new value, or None, for w and
\* a new geometry
UpdateValues == {NullV, Val("int", MaxValue)}
UpdateDicts ==
    UNION {[D -> UpdateValues \cup {Val("LineString", MaxGeom)}] :
             D \in SUBSET ({"geom"} \cup AttrNames)}
\* a value of fid that no row of the model holds (a write stores one edge and
\* at most two nodes), alone or with a value of w
FidValue == Val("int", 2 * MaxWrites + 1)
FidDicts == {("fid" :> FidValue), ("fid" :> FidValue) @@ ("w" :> Val("int", MaxValue))}
EdgeUpdates == {e \in [u : Keys, v : Keys, d : UpdateDicts] :
                   \A k \in DOMAIN e.d : (k = "geom") <=> (e.d[k].type = "LineString")}
               \cup [u : Keys, v : Keys, d : FidDicts]
EdgeBunches == {<<>>} \cup {<<e>> : e \in EdgeUpdates}

\* the call ends: what it wrote, how it ended, and the history of the rows
Updated(op, t, arg, w) ==
    /\ Finish(w)
    /\ res' = [op |-> op, t |-> t, arg |-> arg, ok |-> w.ok, rows |-> <<>>,
               before |-> db[t].rows]
    /\ nupd' = nupd + 1
    /\ UNCHANGED <<ncalls, nfed, nidx, edge, added, build, spvars>>

\* graphs/digraphdb/__init__.py lines 164-167: DiGraphDB.update_edges
UpdateEdges ==
    /\ call.op = "idle" /\ nupd < MaxUpdates
    /\ \E ebunch \in EdgeBunches :
          Updated("update_edges", "edges", ebunch, EdgeUpdateOn(Conn, ebunch))

\* feature_table.py lines 262-263: FeatureTable.update(primary_key, ddict)
AttrDicts == UNION {[D -> UpdateValues] : D \in SUBSET AttrNames}
FidUpdates == [fid : 1..MaxFid, key : {<<>>}, d : AttrDicts \cup {("fid" :> FidValue)}]
Update ==
    /\ call.op = "idle" /\ nupd < MaxUpdates
    /\ \E t \in TableNames, item \in FidUpdates :
          Updated("update", t, <<item>>, UpdateBatchOn(Conn, t, <<item>>))

\* node_table.py lines 10-11: NodeTable.update hands the generator of
\* _table_format to serialize_row, and {**row} raises TypeError
NodeUpdates == [n : Keys, d : AttrDicts]
NodeUpdate ==
    /\ call.op = "idle" /\ nupd < MaxUpdates
    /\ \E nb \in NodeUpdates :
          Updated("update_nodes", "nodes", <<nb>>, [Conn EXCEPT !.ok = FALSE])

\* edges with or without a geometry and a value of w
AttrEdgeInputs ==
    {e \in [u : Keys, v : Keys,
            d : UNION {[D -> {Val("int", 1), LineString}] :
                         D \in SUBSET ({"geom"} \cup AttrNames)}] :
        \A k \in DOMAIN e.d : (k = "geom") <=> (e.d[k] = LineString)}
AddAttrEdge == AddOneEdgeFrom(AttrEdgeInputs, FALSE) /\ UNCHANGED build

\* edges with or without a geometry, a value of w and a value of _length
LengthEdgeInputs ==
    {e \in [u : Keys, v : Keys,
            d : UNION {[D -> {Val("int", 1), Val("float", MaxValue), LineString}] :
                         D \in SUBSET ({"geom", "_length"} \cup AttrNames)}] :
        \A k \in DOMAIN e.d : /\ ((k = "geom") <=> (e.d[k] = LineString))
                               /\ ((k = "_length") <=> (e.d[k].type = "float"))}
AddLengthEdge == AddOneEdgeFrom(LengthEdgeInputs, TRUE) /\ UNCHANGED build

(***************************************************************************)
(* The read-only views.  graphs/nodes.py, graphs/outer_adjlists.py,        *)
(* graphs/inner_adjlists.py and graphs/edges.py derive them from           *)
(* collections.abc.Mapping, which has no __setitem__, no __delitem__ and   *)
(* no update: an item assignment or deletion raises TypeError, a call of a *)
(* method the class does not define raises AttributeError.                 *)
(***************************************************************************)
ViewClasses ==
    {"NodesView", "NodeView", "OuterSuccessorsView", "OuterPredecessorsView",
     "InnerSuccessorsView", "InnerPredecessorsView", "EdgeView"}

\* the mutating operations a caller can attempt on a view
ViewOps == {"__setitem__", "__delitem__", "update", "sync_to_db"}

\* the mutating methods a view class defines: graphs/edges.py lines 80-83
ViewMethods(cls) == IF cls = "EdgeView" THEN {"sync_to_db"} ELSE {}

\* the exception of operation op on a view of class cls
ViewRaises(cls, op) ==
    IF op \in ViewMethods(cls) THEN "ImmutableGraphError"
    ELSE IF op \in {"__setitem__", "__delitem__"} THEN "TypeError"
    ELSE "AttributeError"

\* the operation returned (how = "ok") or raised the exception how; the store
\* and the edge object it found are kept as history
Tried(op, arg, how) ==
    /\ last' = how
    /\ res' = [op |-> op, t |-> "edges", arg |-> arg, ok |-> how = "ok", rows |-> <<>>,
               before |-> [db |-> db, disk |-> disk, edge |-> edge]]

\* a mutating operation attempted on a view: no view class has a statement
\* that writes to the store
ViewMutate ==
    /\ call.op = "idle"
    /\ \E cls \in ViewClasses, op \in ViewOps : Tried("view", <<cls, op>>, ViewRaises(cls, op))
    /\ UNCHANGED <<db, disk, call, ncalls, nfed, failed, nidx, nupd, edge, added, build, spvars>>

\* graphs/digraphdb/__init__.py lines 25-60: DiGraphDBView(network=...).  Line 50
\* calls OuterSuccessorsView(_network=...), whose __init__ (outer_adjlists.py
\* line 19) has the one parameter _sqlitegraph, and raises TypeError
DiGraphDBViewInit ==
    /\ call.op = "idle"
    /\ Tried("DiGraphDBView", <<>>, "TypeError")
    /\ UNCHANGED <<db, disk, call, ncalls, nfed, failed, nidx, nupd, edge, added, build, spvars>>

(***************************************************************************)
(* Edge objects.  graphs/edges.py has EdgeDict and Edge, which hands every *)
(* item assignment and deletion to an EdgeDict; edges.py has the older     *)
(* Edge with the buffer delayed_attr.  The store of an edge object is a    *)
(* SQLiteGraph.                                                            *)
(***************************************************************************)
EdgeClasses == {"EdgeDict", "Edge", "edges.Edge"}

\* the values of _u and _v: None or a node key
EdgeEnds == {None} \cup {<<k>> : k \in Keys}

NoEdge == [cls |-> "none", u |-> None, v |-> None, delayed_attr |-> EmptyMap]

\* graphs/edges.py lines 27 and 35, edges.py line 30
Initialized(e) == e.u # None /\ e.v # None

\* sqlitegraph.py lines 490-496: set_edge_attr hands itself to
\* _add_columns_if_new_keys as the table name, and PRAGMA table_info raises
\* OperationalError before a statement has written
set_edge_attr(u, v, key, value) == "OperationalError"

\* sqlitegraph.py lines 498-507: update_edge returns on an empty ddict and
\* raises in the same call of _add_columns_if_new_keys otherwise
update_edge(u, v, ddict) == IF DOMAIN ddict = {} THEN "ok" ELSE "OperationalError"

\* graphs/edges.py lines 26-32: EdgeDict.__setitem__
EdgeDict_setitem(e, key, value) ==
    IF Initialized(e) THEN set_edge_attr(e.u, e.v, key, value)
    ELSE "UninitializedEdgeError"

\* graphs/edges.py lines 34-40: EdgeDict.__delitem__
EdgeDict_delitem(e, key) ==
    IF Initialized(e) THEN set_edge_attr(e.u, e.v, key, NullV)
    ELSE "UninitializedEdgeError"

\* MutableMapping.update of EdgeDict and Edge: one __setitem__ per key, the
\* first of which raises
EdgeDict_update(e, attr) ==
    IF DOMAIN attr = {} THEN "ok"
    ELSE EdgeDict_setitem(e, CHOOSE k \in DOMAIN attr : TRUE,
                          attr[CHOOSE k \in DOMAIN attr : TRUE])

\* edges.py lines 29-33: Edge.update; how the call ends and the edge after it
Edge_update(e, attr) ==
    IF Initialized(e)
    THEN [how |-> update_edge(e.u, e.v, attr), edge |-> e]
    ELSE [how |-> "ok", edge |-> [e EXCEPT !.delayed_attr = attr @@ @]]

\* e[key] = value: edges.py lines 38-39, graphs/edges.py lines 26-32, 119-120
SetItem(e, key, value) ==
    IF e.cls = "edges.Edge" THEN Edge_update(e, (key :> value))
    ELSE [how |-> EdgeDict_setitem(e, key, value), edge |-> e]

\* del e[key]: graphs/edges.py lines 34-40, 122-123; the Edge of edges.py has
\* no __delitem__
DelItem(e, key) ==
    IF e.cls = "edges.Edge" THEN [how |-> "AttributeError", edge |-> e]
    ELSE [how |-> EdgeDict_delitem(e, key), edge |-> e]

\* e.update(attr)
UpdateItems(e, attr) ==
    IF e.cls = "edges.Edge" THEN Edge_update(e, attr)
    ELSE [how |-> EdgeDict_update(e, attr), edge |-> e]

\* the key of the row of an edge object with both ends
EdgeKey(e) == <<e.u[1], e.v[1]>>

\* the edge object names a row of the edges table
Stored(tbl, e) == Initialized(e) /\ \E r \in tbl.rows : r.key = EdgeKey(e)

\* sqlitegraph.py lines 253-270: get_edge_attr, the columns of the row of
\* (u, v) that are not NULL; no row is EdgeNotFound
get_edge_attr(tbl, e) ==
    [c \in {k \in DOMAIN (CHOOSE r \in tbl.rows : r.key = EdgeKey(e)).attrs :
               (CHOOSE r \in tbl.rows : r.key = EdgeKey(e)).attrs[k] # NullV} |->
        (CHOOSE r \in tbl.rows : r.key = EdgeKey(e)).attrs[c]]

\* e[key]: graphs/edges.py lines 16-17, 68-69, edges.py lines 35-36
GetItem(tbl, e, key) ==
    IF ~Stored(tbl, e) THEN [how |-> "EdgeNotFound", rows |-> <<>>]
    ELSE IF key \in DOMAIN get_edge_attr(tbl, e)
         THEN [how |-> "ok", rows |-> <<get_edge_attr(tbl, e)[key]>>]
         ELSE [how |-> "KeyError", rows |-> <<>>]

\* graphs/edges.py lines 11-14, 107-113, edges.py lines 11-15: an edge object
\* is made without attributes; u and v default to None
NewEdge ==
    /\ call.op = "idle" /\ edge = NoEdge
    /\ \E cls \in EdgeClasses, u \in EdgeEnds, v \in EdgeEnds :
          edge' = [cls |-> cls, u |-> u, v |-> v, delayed_attr |-> EmptyMap]
    /\ UNCHANGED <<dbvars, res, nidx, nupd, added, build, spvars>>

EdgeSetItem ==
    /\ call.op = "idle" /\ edge # NoEdge
    /\ \E key \in AttrNames, value \in UpdateValues :
          /\ Tried("edge.__setitem__", <<key, value>>, SetItem(edge, key, value).how)
          /\ edge' = SetItem(edge, key, value).edge
    /\ UNCHANGED <<db, disk, call, ncalls, nfed, failed, nidx, nupd, added, build, spvars>>

EdgeDelItem ==
    /\ call.op = "idle" /\ edge # NoEdge
    /\ \E key \in AttrNames :
          /\ Tried("edge.__delitem__", <<key>>, DelItem(edge, key).how)
          /\ edge' = DelItem(edge, key).edge
    /\ UNCHANGED <<db, disk, call, ncalls, nfed, failed, nidx, nupd, added, build, spvars>>

\* a read of e[key] through the edge object: every read asks the store
EdgeGetItem ==
    /\ call.op = "idle" /\ edge # NoEdge
    /\ \E key \in AttrNames :
          /\ last' = GetItem(db.edges, edge, key).how
          /\ res' = [op |-> "edge.__getitem__", t |-> "edges", arg |-> <<key>>,
                     ok |-> GetItem(db.edges, edge, key).how = "ok",
                     rows |-> GetItem(db.edges, edge, key).rows,
                     before |-> [db |-> db, disk |-> disk, edge |-> edge]]
    /\ UNCHANGED <<db, disk, call, ncalls, nfed, failed, nidx, nupd, edge, added, build, spvars>>

EdgeUpdate ==
    /\ call.op = "idle" /\ edge # NoEdge
    /\ \E attr \in AttrDicts :
          /\ Tried("edge.update", <<attr>>, UpdateItems(edge, attr).how)
          /\ edge' = UpdateItems(edge, attr).edge
    /\ UNCHANGED <<db, disk, call, ncalls, nfed, failed, nidx, nupd, added, build, spvars>>

(***************************************************************************)
(* The queries of the graph: counts, neighbours and point lookups.  Each   *)
(* runs inside `with self.gpkg.connect()`, which commits when it is left.  *)
(***************************************************************************)
\* feature_table.py lines 629-633: FeatureTable.__len__, SELECT COUNT()
TableLen(tbl) == Cardinality(tbl.rows)

\* graphs/digraphdb/__init__.py lines 62-66: size() without a weight, on the
\* graph that wrote or on a graph reopened from the file
Size ==
    /\ call.op = "idle"
    /\ \E reopened \in BOOLEAN :
        /\ res' = Outcome("size", "edges", <<reopened>>,
                          [ok |-> TRUE,
                           rows |-> <<TableLen(IF reopened THEN disk.edges ELSE db.edges)>>])
        /\ disk' = IF reopened THEN disk ELSE db
    /\ last' = "ok"
    /\ UNCHANGED <<db, call, ncalls, nfed, failed, nidx, nupd, edge, added, build, spvars>>

\* the file at a path: none, a whole database, or the first part of one
Missing == [exists |-> FALSE, complete |-> FALSE, data |-> EmptyDb]
File(d) == [exists |-> TRUE, complete |-> TRUE, data |-> d]
Partial(d) == [exists |-> TRUE, complete |-> FALSE, data |-> d]
NoBuild == [pc |-> "none", cli |-> FALSE, previous |-> Missing, outfile |-> Missing]

DbStart ==
    /\ db = EmptyDb /\ disk = EmptyDb
    /\ call = NoCall /\ last = "none"
    /\ ncalls = 0 /\ nfed = 0 /\ failed = {}
    /\ res = NoResult /\ nidx = 0 /\ nupd = 0
    /\ edge = NoEdge /\ added = {}

DbInit == DbStart /\ build = NoBuild

(***************************************************************************)
(* The steps of one shortest_path call.  The reference run `ref` takes the *)
(* same steps on Passable(graph): an impassable edge is not among its      *)
(* successors, so it has no step for it.                                   *)
(***************************************************************************)
SPInit ==
    /\ graph \in Graphs
    /\ sources \in SourceLists
    /\ cutoff \in CutoffChoices
    /\ target \in TargetChoices
    /\ st = Idle
    /\ ref = Idle
    /\ DbInit

SPSeed ==
    /\ st.pc = "start"
    /\ st' = Seed(st, sources)
    /\ ref' = Seed(ref, sources)
    /\ UNCHANGED <<graph, sources, cutoff, target, dbvars, qvars>>

SPPop ==
    /\ st.pc = "loop" /\ st.todo = {} /\ st.fringe # {}
    /\ st' = Pop(st, graph, target)
    /\ ref' = IF ref.pc = "loop" /\ ref.fringe # {}
              THEN Pop(ref, Passable(graph), target) ELSE ref
    /\ UNCHANGED <<graph, sources, cutoff, target, dbvars, qvars>>

SPRelax ==
    /\ st.pc = "loop" /\ st.todo # {}
    /\ \E u \in st.todo :
        /\ st' = RelaxEdge(st, graph, cutoff, u)
        /\ ref' = IF ref.pc = "loop" /\ u \in ref.todo
                  THEN RelaxEdge(ref, Passable(graph), cutoff, u) ELSE ref
    /\ UNCHANGED <<graph, sources, cutoff, target, dbvars, qvars>>

SPExit ==
    /\ st.pc = "loop" /\ st.todo = {} /\ st.fringe = {}
    /\ st' = Return(st, target)
    /\ ref' = IF ref.pc = "loop" THEN Return(ref, target) ELSE ref
    /\ UNCHANGED <<graph, sources, cutoff, target, dbvars, qvars>>

SPNext == SPSeed \/ SPPop \/ SPRelax \/ SPExit

SpecSP == SPInit /\ [][SPNext]_vars

(***************************************************************************)
(* Ingestion into an empty container; no shortest_path call runs.          *)
(***************************************************************************)
Init ==
    /\ DbInit
    /\ graph = EmptyMap /\ sources = <<1>> /\ cutoff = None /\ target = None
    /\ st = Idle /\ ref = Idle

Next ==
    \/ AddEdgesFromBegin \/ AddEdgesFromFeed \/ AddEdgesFromEnd
    \/ AddEdgesBegin \/ AddEdgesFeed \/ AddEdgesEnd

Spec == Init /\ [][Next]_vars

(***************************************************************************)
(* Whole calls on the feature tables: single-edge ingestion, the spatial   *)
(* index and its queries, updates.                                         *)
(***************************************************************************)
NextFT ==
    \/ AddOneEdge \/ AddRtree \/ DropRtree \/ FinalizeDb

SpecFT == Init /\ [][NextFT]_vars

(***************************************************************************)
(* Spatial queries on a container that is written and indexed.             *)
(***************************************************************************)
NextQ ==
    \/ AddOneEdge \/ FinalizeDb
    \/ Intersects \/ DWithin

SpecQ == Init /\ [][NextQ]_vars

(***************************************************************************)
(* Updates of the rows of a written container.                             *)
(***************************************************************************)
NextU ==
    \/ AddAttrEdge
    \/ UpdateEdges \/ Update \/ NodeUpdate

SpecU == Init /\ [][NextU]_vars

(***************************************************************************)
(* Whole writes of edges whose attribute keys make the schema grow.        *)
(***************************************************************************)
NextW == AddLengthEdge

SpecW == Init /\ [][NextW]_vars

(***************************************************************************)
(* Mutations attempted through the read-only views of a written container. *)
(***************************************************************************)
NextV ==
    \/ AddAttrEdge
    \/ DiGraphDBViewInit \/ ViewMutate

SpecV == Init /\ [][NextV]_vars

(***************************************************************************)
(* Attribute assignments on an edge object over a written container.       *)
(***************************************************************************)
NextE ==
    \/ AddAttrEdge
    \/ NewEdge
    \/ EdgeSetItem \/ EdgeDelItem \/ EdgeUpdate \/ EdgeGetItem

SpecE == Init /\ [][NextE]_vars

\* how a query ended ("ok" or the class of its exception) and what it returned
Answered(op, t, arg, how, rows) ==
    /\ last' = how
    /\ res' = [op |-> op, t |-> t, arg |-> arg, ok |-> how = "ok", rows |-> rows,
               before |-> {}]

\* a node argument: None or a node key
NodeArgs == {None} \cup {<<k>> : k \in Keys}

\* edge_table.py lines 59-69: SELECT DISTINCT _v, or SELECT _v WHERE _u = n
successor_nodes(tbl, n) ==
    IF n = None THEN {r.key[2] : r \in tbl.rows}
    ELSE {r.key[2] : r \in {x \in tbl.rows : x.key[1] = n[1]}}

\* edge_table.py lines 71-81: SELECT DISTINCT _u, or SELECT _u WHERE _v = n
predecessor_nodes(tbl, n) ==
    IF n = None THEN {r.key[1] : r \in tbl.rows}
    ELSE {r.key[1] : r \in {x \in tbl.rows : x.key[2] = n[1]}}

\* the neighbour keys as the table lists them; the rows of one u have distinct
\* v (edges_uv_index), the order is the one of the engine
NeighbourNodes ==
    /\ call.op = "idle"
    /\ \E n \in NodeArgs :
          \/ Answered("successor_nodes", "edges", <<n>>, "ok",
                      <<successor_nodes(db.edges, n)>>)
          \/ Answered("predecessor_nodes", "edges", <<n>>, "ok",
                      <<predecessor_nodes(db.edges, n)>>)
    /\ disk' = db
    /\ UNCHANGED <<db, call, ncalls, nfed, failed, nidx, nupd, edge, added, build, spvars>>

\* edge_table.py lines 120-134: COUNT(DISTINCT(_v)) of the table, or
\* COUNT(DISTINCT(_u)) of the rows WHERE _u = n
unique_successors(tbl, n) ==
    IF n = None THEN Cardinality({r.key[2] : r \in tbl.rows})
    ELSE Cardinality({r.key[1] : r \in {x \in tbl.rows : x.key[1] = n[1]}})

\* edge_table.py lines 104-118: COUNT(DISTINCT(_u)) of the table, or of the
\* rows WHERE _v = n
unique_predecessors(tbl, n) ==
    IF n = None THEN Cardinality({r.key[1] : r \in tbl.rows})
    ELSE Cardinality({r.key[1] : r \in {x \in tbl.rows : x.key[2] = n[1]}})

UniqueNeighbours ==
    /\ call.op = "idle"
    /\ \E n \in NodeArgs :
          \/ Answered("unique_successors", "edges", <<n>>, "ok",
                      <<unique_successors(db.edges, n)>>)
          \/ Answered("unique_predecessors", "edges", <<n>>, "ok",
                      <<unique_predecessors(db.edges, n)>>)
    /\ disk' = db
    /\ UNCHANGED <<db, call, ncalls, nfed, failed, nidx, nupd, edge, added, build, spvars>>

\* the outcome of next(rows) and deserialize_row on the rows a lookup selects:
\* next of no row raises StopIteration, a NULL geometry cannot be sliced
NextRow(rows) ==
    IF rows = {} THEN [how |-> "StopIteration", rows |-> <<>>]
    ELSE IF (CHOOSE r \in rows : TRUE).geom = NullV THEN [how |-> "TypeError", rows |-> <<>>]
    ELSE [how |-> "ok", rows |-> <<DeserializeRow(CHOOSE r \in rows : TRUE)>>]

\* edge_table.py lines 136-145: EdgeTable.get_edge
get_edge(tbl, u, v) == NextRow({r \in tbl.rows : r.key = <<u, v>>})

\* node_table.py lines 13-25: NodeTable.get_node turns StopIteration into
\* NodeNotFound
get_node(tbl, n) ==
    IF NextRow({r \in tbl.rows : r.key = <<n>>}).how = "StopIteration"
    THEN [how |-> "NodeNotFound", rows |-> <<>>]
    ELSE NextRow({r \in tbl.rows : r.key = <<n>>})

GetEdge ==
    /\ call.op = "idle"
    /\ \E u \in Keys, v \in Keys :
          Answered("get_edge", "edges", <<u, v>>, get_edge(db.edges, u, v).how,
                   get_edge(db.edges, u, v).rows)
    /\ disk' = IF last' = "ok" THEN db ELSE disk
    /\ UNCHANGED <<db, call, ncalls, nfed, failed, nidx, nupd, edge, added, build, spvars>>

GetNode ==
    /\ call.op = "idle"
    /\ \E n \in Keys :
          Answered("get_node", "nodes", <<n>>, get_node(db.nodes, n).how,
                   get_node(db.nodes, n).rows)
    /\ disk' = IF last' = "ok" THEN db ELSE disk
    /\ UNCHANGED <<db, call, ncalls, nfed, failed, nidx, nupd, edge, added, build, spvars>>

\* geopackagenetwork/__init__.py: the methods a GeoPackageNetwork has
NetworkMethods == {"copy", "has_node", "add_edges"}

\* inner_adjlists.py lines 13-26, 46-49: the methods of the store an inner
\* adjacency list looks up with getattr when it is made
InnerAdjlistNames(which) ==
    IF which = "_pred"
    THEN {"iter_predecessor_ids", "iter_predecessors", "len_predecessors_of"}
    ELSE {"iter_successor_ids", "iter_successors", "len_successors_of"}

\* outer_adjlists.py lines 26-27: graph[u], graph._adj[u], graph._succ[u] and
\* graph._pred[u] make an inner adjacency list over the network of the graph
\* (graphs/digraphdb/__init__.py lines 31-32, 49-51: _succ and _adj are one
\* mapping); the keys it lists are those of the iterator of the store
OuterGetItem ==
    /\ call.op = "idle"
    /\ \E which \in {"graph", "_adj", "_succ", "_pred"}, n \in Keys :
          IF InnerAdjlistNames(which) \subseteq NetworkMethods
          THEN Answered("adjacency", "edges", <<which, <<n>>>>, "ok",
                        <<IF which = "_pred" THEN predecessor_nodes(db.edges, <<n>>)
                          ELSE successor_nodes(db.edges, <<n>>)>>)
          ELSE Answered("adjacency", "edges", <<which, <<n>>>>, "AttributeError", <<>>)
    /\ UNCHANGED <<db, disk, call, ncalls, nfed, failed, nidx, nupd, edge, added, build, spvars>>

(***************************************************************************)
(* Queries of the graph over a written container.                          *)
(***************************************************************************)
NextG ==
    \/ AddOneEdge
    \/ Size
    \/ NeighbourNodes \/ OuterGetItem
    \/ UniqueNeighbours
    \/ GetEdge \/ GetNode

SpecG == Init /\ [][NextG]_vars

(***************************************************************************)
(* Ingestion of items of any shape, with default attributes.  An item is   *)
(* the tuple the caller gives: (u, v), (u, v, d), or a tuple of another    *)
(* length.  Each call is a whole call on a list of items.                  *)
(***************************************************************************)
MaxItems == 3
MaxIngests == 1
ItemDicts == {EmptyMap} \cup {("w" :> x) : x \in IntValues}
Items ==
    {<<1>>} \cup {<<1, v>> : v \in Keys} \cup {<<1, v, d>> : v \in Keys, d \in ItemDicts}
    \cup {<<1, 1, ("w" :> Val("int", 1)), 0>>, <<1, 2, ("w" :> ListV)>>}
ItemLists == UNION {[1..n -> Items] : n \in 0..MaxItems}
DefaultAttrs == {EmptyMap, ("w" :> Val("int", MaxValue))}

\* how a call that went through the locals ls ended: the exception raised in
\* its loop, the exception of a write, or "ok"
How(ls) == IF ls.raised # "ok" THEN ls.raised ELSE IF ls.w.ok THEN "ok" ELSE "error"

Ingested(op, arg, ls) ==
    /\ db' = ls.w.db /\ disk' = ls.w.disk /\ failed' = ls.w.failed
    /\ last' = How(ls)
    /\ res' = [op |-> op, t |-> "edges", arg |-> arg, ok |-> How(ls) = "ok",
               rows |-> ls.w.counts, before |-> {}, batches |-> ls.w.batches]

\* geopackagenetwork/__init__.py lines 125-135: u, v = edge, then
\* u, v, edge_data = edge, succeed on a tuple of 2 and of 3
Unpacks(item) == Len(item) \in {2, 3}
edge_data(item) == IF Len(item) = 3 THEN item[3] ELSE EmptyMap

\* geopackagenetwork/__init__.py lines 137-144: _u, _v, the items of edge_data
\* and then the items of attr, which replace those of edge_data
AddEdgesFeature(item, attr) == [key |-> <<item[1], item[2]>>, d |-> attr @@ edge_data(item)]

\* geopackagenetwork/__init__.py lines 125-178 on an item of any shape
AddEdgesItem(gs, item, attr) ==
    IF ~gs.w.ok THEN gs
    ELSE IF ~Unpacks(item) THEN [gs EXCEPT !.raised = "ValueError"]
    ELSE AddEdgesEnqueue(gs, AddEdgesFeature(item, attr))

RECURSIVE AddEdgesLoop(_, _, _, _)
AddEdgesLoop(gs, edges, batch_size, attr) ==
    IF edges = <<>> \/ How(gs) # "ok" THEN gs
    ELSE AddEdgesLoop(AddEdgesItem(AddEdgesFlush(gs, batch_size), Head(edges), attr),
                      Tail(edges), batch_size, attr)

\* geopackagenetwork/__init__.py lines 180-181
AddEdgesStragglers(gs, batch_size) ==
    IF How(gs) # "ok" THEN gs
    ELSE [gs EXCEPT !.w = WriteEdgeAndNodeQueues(gs.w, gs.edge_queue, gs.node_queue,
                                                 batch_size)]

\* geopackagenetwork/__init__.py lines 101-181: GeoPackageNetwork.add_edges
add_edges(w, edges, batch_size, attr) ==
    AddEdgesStragglers(AddEdgesLoop([w |-> w, edge_queue |-> <<>>, node_queue |-> <<>>,
                                     raised |-> "ok"],
                                    edges, batch_size, attr),
                       batch_size)

NetworkAddEdges ==
    /\ call.op = "idle" /\ ncalls < MaxIngests
    /\ \E edges \in ItemLists, batch_size \in BatchSizes, attr \in DefaultAttrs :
          Ingested("add_edges", <<edges, batch_size, attr>>,
                   add_edges(Conn, edges, batch_size, attr))
    /\ ncalls' = ncalls + 1
    /\ UNCHANGED <<call, nfed, nidx, nupd, edge, added, build, spvars>>

\* graphs/digraphdb/__init__.py lines 156-159: the generator takes edge[0],
\* edge[1] and edge[2] of each item when write_features asks for the next one
AddEdgesFromFeature(item) == [key |-> <<item[1], item[2]>>, d |-> item[3]]

AddEdgesFromItem(es, item, batch_size) ==
    IF Len(item) < 3 THEN [es EXCEPT !.raised = "IndexError"]
    ELSE ETStep(es, AddEdgesFromFeature(item), batch_size)

RECURSIVE AddEdgesFromLoop(_, _, _)
AddEdgesFromLoop(es, ebunch, batch_size) ==
    IF ebunch = <<>> \/ How(es) # "ok" THEN es
    ELSE AddEdgesFromLoop(AddEdgesFromItem(es, Head(ebunch), batch_size),
                          Tail(ebunch), batch_size)

\* edge_table.py lines 32-33, when the loop was not left by an exception
AddEdgesFromStragglers(es, batch_size) ==
    IF How(es) # "ok" THEN es ELSE [es EXCEPT !.w = ETEnd(es, batch_size)]

\* graphs/digraphdb/__init__.py lines 139-162: DiGraphDB.add_edges_from; attr
\* is used by the call below a batch size of 2 only, which raises TypeError
add_edges_from(w, ebunch, batch_size, attr) ==
    IF batch_size < 2
    THEN [w |-> w, ways_queue |-> <<>>, nodes_queue |-> <<>>, raised |-> "TypeError"]
    ELSE AddEdgesFromStragglers(
             AddEdgesFromLoop([w |-> w, ways_queue |-> <<>>, nodes_queue |-> <<>>,
                               raised |-> "ok"],
                              ebunch, batch_size),
             batch_size)

DiGraphDBAddEdgesFrom ==
    /\ call.op = "idle" /\ ncalls < MaxIngests
    /\ \E ebunch \in ItemLists, batch_size \in BatchSizes, attr \in DefaultAttrs,
          counter \in BOOLEAN :
          Ingested("add_edges_from", <<ebunch, batch_size, attr, counter>>,
                   add_edges_from([Conn EXCEPT !.counter = counter], ebunch, batch_size,
                                  attr))
    /\ ncalls' = ncalls + 1
    /\ UNCHANGED <<call, nfed, nidx, nupd, edge, added, build, spvars>>

\* sqlitegraph.py lines 685-703: ALTER TABLE ... ADD COLUMN for every key of
\* ddict that is no column yet, without a commit.  utils.sqlite_type is not in
\* the source tree; the type names of feature_table.py stand for its result.
add_columns_if_new_keys(w, t, ddict) ==
    [w EXCEPT !.db[t].cols = [k \in DOMAIN ddict \ DOMAIN @ |-> COL_TYPE_MAP[ddict[k].type]] @@ @,
              !.db[t].rows = {[r EXCEPT !.attrs = [c \in DOMAIN ddict \ DOMAIN r.attrs |-> NullV] @@ @]
                                : r \in @}]

\* sqlitegraph.py lines 154-162: REPLACE INTO edges (_u, _v, the keys of d)
insert_or_replace_edge(w, u, v, d) ==
    [w EXCEPT !.db.edges =
        Replace(@, [key |-> <<u, v>>, geom |-> NullV,
                    attrs |-> [c \in DOMAIN @.cols |-> IF c \in DOMAIN d THEN d[c] ELSE NullV]])]

\* sqlitegraph.py lines 164-171: INSERT OR IGNORE INTO nodes, the geometry is
\* the point the key spells
insert_or_ignore_node(w, n) ==
    IF \E r \in w.db.nodes.rows : r.key = <<n>> THEN w
    ELSE [w EXCEPT !.db.nodes.rows =
            @ \cup {[fid |-> NextFid(w.db.nodes), key |-> <<n>>,
                     geom |-> SerializeGeometry(Val("Point", n)),
                     attrs |-> [c \in DOMAIN w.db.nodes.cols |-> NullV]]}]

\* sqlitegraph.py lines 187-190; line 155, cols, vals = zip(*d.items()), raises
\* ValueError when d is empty.  A value no column type and no binding exists
\* for raises in sqlite_type or in the execute, before a row is written.
SGInsert(ss, u, v, d) ==
    IF \E k \in DOMAIN d : ~Bindable(d[k]) THEN [ss EXCEPT !.w.ok = FALSE]
    ELSE IF d = EmptyMap THEN [ss EXCEPT !.raised = "ValueError"]
    ELSE [ss EXCEPT !.w = insert_or_ignore_node(
                              insert_or_ignore_node(
                                  insert_or_replace_edge(add_columns_if_new_keys(@, "edges", d),
                                                         u, v, d),
                                  u),
                              v)]

\* sqlitegraph.py lines 175-185: d is attr for a 2-tuple and {**attr, **edge[2]}
\* for a 3-tuple; any other length raises ValueError
SGAddEdge(ss, item, attr) ==
    IF Len(item) = 2 THEN SGInsert(ss, item[1], item[2], attr)
    ELSE IF Len(item) = 3 THEN SGInsert(ss, item[1], item[2], item[3] @@ attr)
    ELSE [ss EXCEPT !.raised = "ValueError"]

RECURSIVE SGAddEdgesLoop(_, _, _)
SGAddEdgesLoop(ss, ebunch, attr) ==
    IF ebunch = <<>> \/ How(ss) # "ok" THEN ss
    ELSE SGAddEdgesLoop(SGAddEdge(ss, Head(ebunch), attr), Tail(ebunch), attr)

\* sqlitegraph.py line 192: the commit, reached when no item raised
SGCommit(ss) == IF How(ss) # "ok" THEN ss ELSE [ss EXCEPT !.w = Commit(@)]

\* sqlitegraph.py lines 173-192: SQLiteGraph.add_edges
sqlite_add_edges(w, ebunch, attr) ==
    SGCommit(SGAddEdgesLoop([w |-> w, raised |-> "ok"], ebunch, attr))

SQLiteGraphAddEdges ==
    /\ call.op = "idle" /\ ncalls < MaxIngests
    /\ \E ebunch \in ItemLists, attr \in DefaultAttrs :
          Ingested("sqlite_add_edges", <<ebunch, 0, attr>>,
                   sqlite_add_edges(Conn, ebunch, attr))
    /\ ncalls' = ncalls + 1
    /\ UNCHANGED <<call, nfed, nidx, nupd, edge, added, build, spvars>>

\* sqlitegraph.py lines 205-207 and 211-213: add_edges on the collected items,
\* then counter.update(n)
SGCounted(ss, len, n) ==
    IF How(ss) # "ok" THEN ss
    ELSE [ss EXCEPT !.w.batches = Append(@, len),
                    !.w.counts = IF ss.w.counter THEN Append(@, n) ELSE @]
SGBatch(ss, ebunch, n, attr) ==
    SGCounted(SGCommit(SGAddEdgesLoop(ss, ebunch, attr)), Len(ebunch), n)

\* sqlitegraph.py lines 200-214: the loop; rest is what the iterator still holds
RECURSIVE SGBatchedLoop(_, _, _, _, _)
SGBatchedLoop(ss, rest, ebunch, batch_size, attr) ==
    IF How(ss) # "ok" THEN ss
    ELSE IF rest = <<>> THEN SGBatch(ss, ebunch, Len(ebunch), attr)
    ELSE IF Len(ebunch) + 1 = batch_size
    THEN SGBatchedLoop(SGBatch(ss, Append(ebunch, Head(rest)), batch_size, attr),
                       Tail(rest), <<>>, batch_size, attr)
    ELSE SGBatchedLoop(ss, Tail(rest), Append(ebunch, Head(rest)), batch_size, attr)

\* sqlitegraph.py lines 197-214: SQLiteGraph.add_edges_batched; line 202 calls
\* next on ebunch_to_add itself, which raises TypeError unless the argument is
\* an iterator (lazy)
add_edges_batched(w, ebunch_to_add, lazy, batch_size, attr) ==
    IF ~lazy THEN [w |-> w, raised |-> "TypeError"]
    ELSE SGBatchedLoop([w |-> w, raised |-> "ok"], ebunch_to_add, <<>>, batch_size, attr)

SQLiteGraphAddEdgesBatched ==
    /\ call.op = "idle" /\ ncalls < MaxIngests
    /\ \E ebunch \in ItemLists, batch_size \in BatchSizes, attr \in DefaultAttrs,
          counter \in BOOLEAN, lazy \in BOOLEAN :
          Ingested("add_edges_batched", <<ebunch, batch_size, attr, counter, lazy>>,
                   add_edges_batched([Conn EXCEPT !.counter = counter], ebunch, lazy,
                                     batch_size, attr))
    /\ ncalls' = ncalls + 1
    /\ UNCHANGED <<call, nfed, nidx, nupd, edge, added, build, spvars>>

NextI ==
    \/ NetworkAddEdges
    \/ DiGraphDBAddEdgesFrom
    \/ SQLiteGraphAddEdges \/ SQLiteGraphAddEdgesBatched

SpecI == Init /\ [][NextI]_vars

(***************************************************************************)
(* Batches of a whole ingestion call into a container that may hold edges  *)
(* already.  The result keeps the container as the call found it, the      *)
(* number of edge rows of each committed executemany, and the edges that a *)
(* commit of the call made durable without their endpoint nodes.           *)
(***************************************************************************)
BatchDicts == {EmptyMap, ("w" :> Val("int", 1)), ("w" :> ListV), ("geom" :> Val("LineString", 0))}
BatchItems == {<<1, v, d>> : v \in Keys, d \in BatchDicts}
BatchLists == UNION {[1..n -> BatchItems] : n \in 0..MaxItems}

Batched(op, arg, ls) ==
    /\ db' = ls.w.db /\ disk' = ls.w.disk /\ failed' = ls.w.failed
    /\ last' = How(ls)
    /\ res' = [op |-> op, t |-> "edges", arg |-> arg, ok |-> How(ls) = "ok",
               rows |-> <<>>, before |-> db.edges.rows, batches |-> ls.w.batches,
               was |-> db, orphans |-> ls.w.orphans]

\* GeoPackageNetwork.add_edges(edges, batch_size), a whole call
BatchAddEdges ==
    /\ call.op = "idle" /\ ncalls < MaxWrites /\ nfed < MaxIngests
    /\ \E edges \in BatchLists, batch_size \in BatchSizes :
          Batched("add_edges", <<edges, batch_size>>,
                  add_edges(Conn, edges, batch_size, EmptyMap))
    /\ ncalls' = ncalls + 1 /\ nfed' = nfed + 1
    /\ UNCHANGED <<call, nidx, nupd, edge, added, build, spvars>>

\* DiGraphDB.add_edges_from(ebunch, _batch_size), a whole call
BatchAddEdgesFrom ==
    /\ call.op = "idle" /\ ncalls < MaxWrites /\ nfed < MaxIngests
    /\ \E ebunch \in BatchLists, batch_size \in BatchSizes :
          Batched("add_edges_from", <<ebunch, batch_size>>,
                  add_edges_from(Conn, ebunch, batch_size, EmptyMap))
    /\ ncalls' = ncalls + 1 /\ nfed' = nfed + 1
    /\ UNCHANGED <<call, nidx, nupd, edge, added, build, spvars>>

NextP == AddOneEdge \/ BatchAddEdges \/ BatchAddEdgesFrom

SpecP == Init /\ [][NextP]_vars

(***************************************************************************)
(* A build: GraphBuilder.create_temporary_db, add_edges_from for each      *)
(* input, finalize_db.  The command line reads builder.reindex between the *)
(* import and finalize_db.  Each statement that touches the output path is *)
(* a step of its own.                                                      *)
(***************************************************************************)
\* the database a former build left at the output path
OldDb ==
    [EmptyDb EXCEPT !.edges.rows = {[fid |-> 1, key |-> <<2, 2>>, geom |-> NullV,
                                     attrs |-> EmptyMap]},
                    !.nodes.rows = {[fid |-> 2, key |-> <<2>>, geom |-> NullV,
                                     attrs |-> EmptyMap]}]
PreviousOutputs == {Missing, File(OldDb)}
\* the edges of the input files; the last one carries a value no column takes
BuildInputs == GeoEdgeInputs \cup {[u |-> 1, v |-> 1, d |-> ("w" :> ListV)]}

BuildInit ==
    /\ DbStart
    /\ graph = EmptyMap /\ sources = <<1>> /\ cutoff = None /\ target = None
    /\ st = Idle /\ ref = Idle
    /\ \E cli \in BOOLEAN, previous \in PreviousOutputs :
          build = [pc |-> "start", cli |-> cli, previous |-> previous, outfile |-> previous]

BuildStep(pc) ==
    /\ build' = [build EXCEPT !.pc = pc]
    /\ UNCHANGED <<dbvars, res, nidx, nupd, edge, added, spvars>>

\* build.py lines 22-30: a new container at a fresh temporary path
CreateTemporaryDb == build.pc = "start" /\ BuildStep("temp")

\* build.py lines 47-54 and cli.py lines 40-42: the edges of an input are
\* imported; an exception of the import ends the build
BuildAddEdgesFrom ==
    /\ build.pc = "temp"
    /\ AddOneEdgeFrom(BuildInputs, FALSE)
    /\ build' = [build EXCEPT !.pc = IF last' = "ok" THEN "temp" ELSE "failed"]

\* cli.py line 48: builder.reindex reads an attribute GraphBuilder does not
\* have and raises AttributeError
Reindex ==
    /\ build.pc = "temp" /\ build.cli
    /\ build' = [build EXCEPT !.pc = "failed"]
    /\ last' = "AttributeError"
    /\ UNCHANGED <<db, disk, call, ncalls, nfed, failed, res, nidx, nupd, edge, added, spvars>>

\* build.py lines 37-38: the two add_rtree calls of finalize_db
FinalizeIndex ==
    /\ build.pc = "temp" /\ ~build.cli /\ call.op = "idle"
    /\ Finish(FinalizeDbOn(Conn))
    /\ build' = [build EXCEPT !.pc = IF last' = "ok" THEN "indexed" ELSE "failed"]
    /\ UNCHANGED <<ncalls, nfed, res, nidx, nupd, edge, added, spvars>>

\* build.py lines 40-41: if os.path.exists(path): os.remove(path)
RemoveOutput ==
    /\ build.pc = "indexed"
    /\ build' = [build EXCEPT !.pc = "removed", !.outfile = Missing]
    /\ UNCHANGED <<dbvars, res, nidx, nupd, edge, added, spvars>>

\* build.py line 43: shutil.move renames the temporary file when both paths
\* are on one file system
MoveRename ==
    /\ build.pc = "removed"
    /\ build' = [build EXCEPT !.pc = "done", !.outfile = File(disk)]
    /\ UNCHANGED <<dbvars, res, nidx, nupd, edge, added, spvars>>

\* build.py line 43: across file systems shutil.move copies the temporary file
\* to the output path and then unlinks it; the copy can fail on the way
MoveCopyBegin ==
    /\ build.pc = "removed"
    /\ build' = [build EXCEPT !.pc = "copying",
                              !.outfile = Partial(disk)]
    /\ UNCHANGED <<dbvars, res, nidx, nupd, edge, added, spvars>>

MoveCopyEnd ==
    /\ build.pc = "copying"
    /\ build' = [build EXCEPT !.pc = "done", !.outfile = File(disk)]
    /\ UNCHANGED <<dbvars, res, nidx, nupd, edge, added, spvars>>

MoveCopyFail ==
    /\ build.pc = "copying"
    /\ build' = [build EXCEPT !.pc = "failed"]
    /\ last' = "OSError"
    /\ UNCHANGED <<db, disk, call, ncalls, nfed, failed, res, nidx, nupd, edge, added, spvars>>

NextBuild ==
    \/ CreateTemporaryDb
    \/ BuildAddEdgesFrom
    \/ Reindex
    \/ FinalizeIndex
    \/ RemoveOutput
    \/ MoveRename
    \/ MoveCopyBegin \/ MoveCopyEnd \/ MoveCopyFail

SpecBuild == BuildInit /\ [][NextBuild]_vars

(***************************************************************************)
(* The in-memory copy of a written and indexed container.                  *)
(***************************************************************************)
\* geopackage.py lines 826-838: every line of the dump is run on the new
\* connection but the CREATE TABLE and INSERT INTO lines that hold "idx_" or
\* "rtree_": the rows, the columns, the indices and the triggers are copied,
\* the R-tree tables and the gpkg_rtree_index rows of gpkg_extensions are not
CopyTable(tbl) == [tbl EXCEPT !.rtree = {}, !.has_rtree = FALSE]

\* geopackage.py lines 801-861: GeoPackage.copy; the dump reads what the
\* connection sees
GeoPackageCopy(d) == [edges |-> CopyTable(d.edges), nodes |-> CopyTable(d.nodes), ext |-> {}]

\* geopackagenetwork/__init__.py lines 24-26: GeoPackageNetwork.copy drops the
\* GeoPackage that gpkg.copy returns and opens the path again.  The path names
\* a shared in-memory database, which lasts as long as a connection to it: when
\* the dropped connections were collected before the path is opened again,
\* GeoPackageNetwork(path) creates its tables in a new, empty database.
NetworkCopy(d, collected) == IF collected THEN EmptyDb ELSE GeoPackageCopy(d)

\* graphs/digraphdb/__init__.py lines 88-93: DiGraphDBView.to_in_memory.  The
\* with block of the dump commits on the source (geopackage.py line 822); line
\* 93 calls self.__class__(network=new_network), which raises the TypeError of
\* the constructor.  network is what network.copy(path) returned.
ToInMemory ==
    /\ call.op = "idle"
    /\ \E collected \in BOOLEAN :
          res' = [op |-> "to_in_memory", t |-> "edges", arg |-> <<collected>>,
                  ok |-> FALSE, rows |-> <<>>, before |-> {},
                  network |-> NetworkCopy(db, collected)]
    /\ last' = "TypeError"
    /\ disk' = db
    /\ UNCHANGED <<db, call, ncalls, nfed, failed, nidx, nupd, edge, added, build, spvars>>

NextM ==
    \/ AddOneEdge \/ AddRtree
    \/ ToInMemory

SpecM == Init /\ [][NextM]_vars

(***************************************************************************)
(* The geometry cell, byte by byte.  A byte is a number in 0..255 and a     *)
(* cell a sequence of bytes.  An SRID is held as its two 16-bit halves,     *)
(* hi * 65536 + lo.  The tables above keep of a cell its type and position  *)
(* only (SerializeGeometry).                                                *)
(***************************************************************************)
\* geopackage.py lines 632-633
VERSION == 0
EMPTY == 1

MaxHalf == 65535
Srid(hi, lo) == [hi |-> hi, lo |-> lo]
\* 0, 1, 255, 256, 3740, 4326, 65535, 65536, 2^24, 2^31 - 1, 2^31, 2^32 - 1
Srids == {Srid(0, 0), Srid(0, 1), Srid(0, 255), Srid(0, 256), Srid(0, 3740), Srid(0, 4326),
          Srid(0, MaxHalf), Srid(1, 0), Srid(256, 0), Srid(32767, MaxHalf),
          Srid(32768, 0), Srid(MaxHalf, MaxHalf)}

RECURSIVE Reverse(_)
Reverse(s) == IF s = <<>> THEN <<>> ELSE Append(Reverse(Tail(s)), Head(s))

\* int.to_bytes(1, byteorder="little") and int.to_bytes(4, byteorder="little")
to_bytes1(n) == <<n % 256>>
to_bytes4_Big(srid) ==
    <<srid.hi \div 256, srid.hi % 256, srid.lo \div 256, srid.lo % 256>>
to_bytes4(srid) ==
    <<srid.lo % 256, srid.lo \div 256, srid.hi % 256, srid.hi \div 256>>
\* int.from_bytes(b, byteorder="little") of four bytes
from_bytes4(b) == Srid(b[3] + 256 * b[4], b[1] + 256 * b[2])

\* feature_table.py lines 519-524: b"GP" + version + empty + srid
gp_header(srid) == <<71, 80>> \o to_bytes1(VERSION) \o to_bytes1(EMPTY) \o to_bytes4(srid)

\* Well-known binary, as geomet.wkb and shapely write and read it (the
\* libraries are not part of the source tree): the byte order, the type code
\* as a 4-byte integer, for a line the number of points, then x and y of each
\* point as IEEE 754 doubles.
MaxAbsCoord == 2
Coords == (0 - MaxAbsCoord)..MaxAbsCoord
\* the two leading bytes of the big-endian double; the other six are 0 for
\* these values
DoubleHead(c) ==
    CASE c = 0 -> <<0, 0>> [] c = 1 -> <<63, 240>> [] c = 2 -> <<64, 0>>
      [] c = 0 - 1 -> <<191, 240>> [] c = 0 - 2 -> <<192, 0>>
Ordered(b, little) == IF little THEN Reverse(b) ELSE b
WkbDouble(c, little) == Ordered(DoubleHead(c) \o <<0, 0, 0, 0, 0, 0>>, little)
WkbUint32(n, little) == Ordered(<<0, 0, 0, n>>, little)
WkbPoint(p, little) == WkbDouble(p[1], little) \o WkbDouble(p[2], little)
RECURSIVE WkbPoints(_, _)
WkbPoints(ps, little) ==
    IF ps = <<>> THEN <<>> ELSE WkbPoint(Head(ps), little) \o WkbPoints(Tail(ps), little)
WkbDumps(g, little) ==
    <<IF little THEN 1 ELSE 0>> \o
    (IF g.type = "Point"
     THEN WkbUint32(1, little) \o WkbPoint(g.coordinates, little)
     ELSE WkbUint32(2, little) \o WkbUint32(Len(g.coordinates), little)
          \o WkbPoints(g.coordinates, little))

ReadDouble(b, little) ==
    IF \E c \in Coords : WkbDouble(c, little) = b
    THEN CHOOSE c \in Coords : WkbDouble(c, little) = b
    ELSE MaxAbsCoord + 1
ReadUint32(b, little) == Ordered(b, little)[4]
ReadPoint(b, little) == <<ReadDouble(SubSeq(b, 1, 8), little), ReadDouble(SubSeq(b, 9, 16), little)>>
\* bytes that are the well-known binary of no point and no line make loads raise
WellKnown(b) == \E c \in Coords : \E little \in BOOLEAN :
    \/ Len(b) = 21 /\ SubSeq(b, 1, 5) = <<IF little THEN 1 ELSE 0>> \o WkbUint32(1, little)
    \/ /\ Len(b) >= 9 /\ SubSeq(b, 1, 5) = <<IF little THEN 1 ELSE 0>> \o WkbUint32(2, little)
       /\ \E n \in 0..3 : SubSeq(b, 6, 9) = WkbUint32(n, little) /\ Len(b) = 9 + 16 * n
WkbLoads(b) ==
    IF ~WellKnown(b) THEN [type |-> "error", coordinates |-> <<>>]
    ELSE IF ReadUint32(SubSeq(b, 2, 5), b[1] = 1) = 1
    THEN [type |-> "Point", coordinates |-> ReadPoint(SubSeq(b, 6, 21), b[1] = 1)]
    ELSE [type |-> "LineString",
          coordinates |-> [i \in 1..ReadUint32(SubSeq(b, 6, 9), b[1] = 1) |->
                              ReadPoint(SubSeq(b, 16 * i - 6, 16 * i + 9), b[1] = 1)]]

\* feature_table.py lines 586-590: a shapely LineString or Point gives its own
\* wkb (little-endian), a GeoJSON-like dict goes through geomet.wkb.dumps
\* (big-endian); the header comes first
serialize_geometry(srid, g, shapely) == gp_header(srid) \o WkbDumps(g, shapely)

\* feature_table.py lines 592-596: the bytes after the length of the header
header_len_Magic(srid) == 4
header_len(srid) == Len(gp_header(srid))
deserialize_geometry(srid, cell) == WkbLoads(SubSeq(cell, header_len(srid) + 1, Len(cell)))

\* the points and the lines of two or three points of a small grid
GridPoints == {<<x, y>> : x \in Coords, y \in {0, 1}}
PointGeometries == {[type |-> "Point", coordinates |-> p] : p \in GridPoints}
LineGeometries ==
    {[type |-> "LineString", coordinates |-> ps] :
        ps \in {<<p, q>> : p \in {<<0, 0>>, <<0 - 2, 1>>}, q \in GridPoints}
                \cup {<<<<1, 0>>, <<2, 1>>, <<0 - 1, 0>>>>}}
CellGeometries == PointGeometries \cup LineGeometries

\* _serialize_geometry on a table of the SRID
Serialize ==
    /\ \E srid \in Srids, g \in CellGeometries, shapely \in BOOLEAN :
          res' = [op |-> "serialize", t |-> "edges", arg |-> <<srid, g, shapely>>,
                  ok |-> TRUE, rows |-> <<serialize_geometry(srid, g, shapely)>>,
                  before |-> {}]
    /\ last' = "ok"
    /\ UNCHANGED <<db, disk, call, ncalls, nfed, failed, nidx, nupd, edge, added, build, spvars>>

\* _deserialize_geometry on the cell that was written
Deserialize ==
    /\ res.op = "serialize"
    /\ res' = [op |-> "deserialize", t |-> "edges", arg |-> res.arg, ok |-> TRUE,
               rows |-> <<deserialize_geometry(res.arg[1], res.rows[1])>>,
               before |-> {}]
    /\ last' = "ok"
    /\ UNCHANGED <<db, disk, call, ncalls, nfed, failed, nidx, nupd, edge, added, build, spvars>>

NextB == Serialize \/ Deserialize

SpecB == Init /\ [][NextB]_vars

(***************************************************************************)
(* Reference notions for the claims about shortest_path: they are computed *)
(* from the graph alone, never from the search.                            *)
(***************************************************************************)
NonNegative(g) == \A p \in DOMAIN g : g[p] = None \/ g[p][1] >= 0
SetMin(S) == CHOOSE x \in S : \A y \in S : x <= y

\* one round of Bellman-Ford over the passable edges; d maps a node to an optional distance
BFRound(g, d) ==
    [n \in Nodes |->
        LET cands == (IF d[n] = None THEN {} ELSE {d[n][1]}) \cup
                     {d[p][1] + g[<<p, n>>][1] :
                        p \in {q \in Nodes : /\ <<q, n>> \in DOMAIN g
                                             /\ g[<<q, n>>] # None
                                             /\ d[q] # None}}
        IN  IF cands = {} THEN None ELSE Some(SetMin(cands))]

RECURSIVE BFIterate(_, _, _)
BFIterate(g, d, k) == IF k = 0 THEN d ELSE BFIterate(g, BFRound(g, d), k - 1)

\* the minimum total cost over all directed paths from any source (costs non-negative)
MinDist(g, srcs) ==
    BFIterate(g, [n \in Nodes |-> IF n \in Range(srcs) THEN Some(0) ELSE None], NumNodes)

RECURSIVE PathCost(_, _)
PathCost(g, p) ==
    IF Len(p) <= 1 THEN 0
    ELSE g[<<p[1], p[2]>>][1] + PathCost(g, Tail(p))

\* p leads from a source to n along stored edges whose cost is not None
ValidPath(g, srcs, p, n) ==
    /\ Len(p) >= 1
    /\ p[1] \in Range(srcs)
    /\ p[Len(p)] = n
    /\ \A i \in 1..(Len(p) - 1) :
          <<p[i], p[i + 1]>> \in DOMAIN g /\ g[<<p[i], p[i + 1]>>] # None

Returned == st.pc = "done" /\ st.outcome = "return"
\* the nodes for which the call returns a path
ReturnedNodes == IF target = None THEN DOMAIN st.paths ELSE {target[1]}

\* C1: with non-negative costs and no cutoff, for a target reachable from some
\* source the call returns, and the distance it returns is the minimum total cost
\* over all directed paths from any source to the target.
C1_Optimal ==
    (/\ st.pc = "done" /\ target # None /\ cutoff = None
     /\ NonNegative(graph)
     /\ MinDist(graph, sources)[target[1]] # None)
    => (/\ st.outcome = "return"
        /\ st.dist[target[1]] = MinDist(graph, sources)[target[1]][1])

\* the scenario of the specification: a two-edge path beats the direct edge
C1_Witness ==
    /\ Returned /\ target # None /\ cutoff = None /\ NonNegative(graph)
    /\ Len(st.paths[target[1]]) = 3
    /\ <<st.paths[target[1]][1], target[1]>> \in DOMAIN graph
    /\ graph[<<st.paths[target[1]][1], target[1]>>] # None
    /\ graph[<<st.paths[target[1]][1], target[1]>>][1] > st.dist[target[1]]

\* C2: every returned path starts at a source, ends at its node, runs along
\* stored edges whose cost is not None, and its edge costs sum to the distance
\* returned for that node.
C2_PathsSound ==
    Returned =>
        \A n \in ReturnedNodes :
            /\ n \in DOMAIN st.dist
            /\ ValidPath(graph, sources, st.paths[n], n)
            /\ PathCost(graph, st.paths[n]) = st.dist[n]

\* an exhaustive search that returns a path of two edges, one of them negative
C2_Witness ==
    /\ Returned /\ target = None
    /\ \E n \in DOMAIN st.paths :
          /\ Len(st.paths[n]) = 3
          /\ graph[<<st.paths[n][1], st.paths[n][2]>>][1] < 0

\* the nodes a directed path of passable edges reaches from a source
RECURSIVE ReachFrom(_, _, _)
ReachFrom(g, R, k) ==
    IF k = 0 THEN R
    ELSE ReachFrom(g, R \cup {n \in Nodes : \E p \in R : <<p, n>> \in DOMAIN g /\ g[<<p, n>>] # None},
                   k - 1)
Reachable(g, srcs) == ReachFrom(g, Range(srcs), NumNodes)

\* C3: when a target is given and no directed path of passable edges leads from
\* any source to it, the call fails with NoPath: it neither returns a value nor
\* fails with any other error.
C3_NoPath ==
    (st.pc = "done" /\ target # None /\ target[1] \notin Reachable(graph, sources))
    => st.outcome = "NoPath"

\* the edge (v, u) relaxed last, if any, gives a distance below the finalized dist[u]
ShorterToFinalized ==
    /\ st.u # None
    /\ graph[<<st.v[1], st.u[1]>>] # None
    /\ st.u[1] \in DOMAIN st.dist
    /\ st.dist[st.v[1]] + graph[<<st.v[1], st.u[1]>>][1] < st.dist[st.u[1]]

WithinCutoff ==
    cutoff = None \/ st.dist[st.v[1]] + graph[<<st.v[1], st.u[1]>>][1] <= cutoff[1]

\* C4 as stated: whenever relaxing an edge gives a distance strictly below the
\* finalized distance of its head, the call fails with the contradictory-paths
\* error and returns nothing.
C4_Contradictory == ShorterToFinalized => (st.pc = "done" /\ st.outcome = "ValueError")

\* C4 as amended: the same, provided the candidate distance does not exceed a
\* cutoff that is set (an edge over the cutoff is skipped first).
C4_ContradictoryWithinCutoff ==
    (ShorterToFinalized /\ WithinCutoff) => (st.pc = "done" /\ st.outcome = "ValueError")

C4_Witness ==
    /\ ShorterToFinalized /\ WithinCutoff /\ cutoff # None
    /\ st.outcome = "ValueError"
    /\ st.u # st.v

Exhaustive == Returned /\ target = None

\* C5 as stated: with a cutoff and non-negative costs an exhaustive search
\* finalizes exactly the nodes whose minimum distance is at most the cutoff, each
\* with its minimum distance, and reports no distance above the cutoff.
C5_Cutoff ==
    (Exhaustive /\ cutoff # None /\ NonNegative(graph))
    => LET m == MinDist(graph, sources)
       IN  /\ DOMAIN st.dist = {n \in Nodes : m[n] # None /\ m[n][1] <= cutoff[1]}
           /\ \A n \in DOMAIN st.dist : st.dist[n] = m[n][1] /\ st.dist[n] <= cutoff[1]

\* C5 as amended: the sources are always finalized (at distance 0); beyond them
\* exactly the nodes whose minimum distance is at most the cutoff are finalized,
\* each with its minimum distance, and no other node is reported above the cutoff.
C5_CutoffBeyondSources ==
    (Exhaustive /\ cutoff # None /\ NonNegative(graph))
    => LET m == MinDist(graph, sources)
       IN  /\ DOMAIN st.dist =
                Range(sources) \cup {n \in Nodes : m[n] # None /\ m[n][1] <= cutoff[1]}
           /\ \A n \in DOMAIN st.dist :
                /\ st.dist[n] = m[n][1]
                /\ (n \notin Range(sources) => st.dist[n] <= cutoff[1])

\* a node at exactly the cutoff is finalized, a reachable node beyond it is not
C5_Witness ==
    /\ Exhaustive /\ cutoff # None /\ NonNegative(graph)
    /\ \E n \in DOMAIN st.dist : n \notin Range(sources) /\ st.dist[n] = cutoff[1]
    /\ \E n \in Reachable(graph, sources) : n \notin DOMAIN st.dist

\* the part of a run that the caller can observe or that decides it
\* C6: an edge whose cost is None is never relaxed and never an error: the
\* outcome (distances, paths or the failure) is that of the same call on the graph
\* with every such edge removed.
C6_ImpassableIgnored ==
    (st.pc = "done" \/ ref.pc = "done")
    => (/\ st.pc = ref.pc
        /\ st.outcome = ref.outcome
        /\ (st.outcome = "return" =>
              /\ st.dist = ref.dist
              /\ \A n \in ReturnedNodes : st.paths[n] = ref.paths[n]))

\* a finished search that iterated over an impassable edge next to a passable one
C6_Witness ==
    /\ Exhaustive
    /\ \E v \in DOMAIN st.dist : \E u, w \in Nodes :
          /\ <<v, u>> \in DOMAIN graph /\ graph[<<v, u>>] = None
          /\ <<v, w>> \in DOMAIN graph /\ graph[<<v, w>>] # None
          /\ u \notin DOMAIN st.dist
    /\ Cardinality(DOMAIN st.dist) >= 2

\* p achieves the final distance of n along a passable edge
TiedPred(p, n) ==
    /\ p \in DOMAIN st.dist
    /\ <<p, n>> \in DOMAIN graph
    /\ graph[<<p, n>>] # None
    /\ st.dist[p] + graph[<<p, n>>][1] = st.dist[n]

NoCutoff == Exhaustive /\ cutoff = None

Ingesting == call.op \in {"add_edges", "add_edges_from"}

\* C8 as stated: no step of an add_edges / add_edges_from call changes an
\* attribute of an edge (u, v) that is already stored (first occurrence wins).
C8_FirstWins ==
    [][Ingesting =>
         \A r \in db.edges.rows : \A r2 \in db'.edges.rows :
            r2.key = r.key => \A c \in DOMAIN r.attrs : r2.attrs[c] = r.attrs[c]]_vars

\* C9 as stated: no row that a failed batch write had written is ever part of
\* the committed container.
C9_AllOrNothing ==
    \A t \in {"edges", "nodes"} : \A r \in disk[t].rows : <<t, r.fid>> \notin failed

NodeKeys == {n.key[1] : n \in db.nodes.rows}

\* C10 as stated: when add_edges / add_edges_from has returned successfully,
\* both endpoints of every stored edge are keys of the nodes table.
C10_EndpointsAreNodes ==
    (call.op = "idle" /\ last = "ok")
    => \A r \in db.edges.rows : r.key[1] \in NodeKeys /\ r.key[2] \in NodeKeys

(***************************************************************************)
(* Spatial index                                                           *)
(***************************************************************************)
\* the entries a synchronized index of the table holds
SyncedEntries(tbl) == {[id |-> r.fid, box |-> Mbr(r.geom)] : r \in {x \in tbl.rows : x.geom # NullV}}

\* C11 as stated: a table that has its spatial index holds exactly one entry
\* per row with a geometry, with the row's fid and the bounding box of the
\* geometry, and no other entry.
C11_IndexInSync ==
    \A t \in TableNames :
       (db[t].has_rtree /\ db[t].triggers) => db[t].rtree = SyncedEntries(db[t])


\* the bounding box of the geometry of a row that has one
TrueBox(r) == Mbr(r.geom)

\* C12 as stated: on an indexed table intersects succeeds and returns exactly
\* the features whose bounding box overlaps the query box, boxes that touch
\* on a border included.
C12_IntersectsExact ==
    (res.op = "intersects" /\ db[res.t].has_rtree /\ db[res.t].triggers) =>
        /\ res.ok
        /\ Range(res.rows) = {DeserializeRow(r) : r \in
                {x \in db[res.t].rows : x.geom # NullV /\ Overlaps(TrueBox(x), res.arg)}}

\* C13: every feature dwithin returns lies nearer to the query point than the
\* given distance, and with sort the features come in non-decreasing order of
\* their distance.
C13_DWithin ==
    (res.op = "dwithin" /\ res.ok) =>
        /\ \A i \in 1..Len(res.rows) :
              DistanceSq(res.rows[i].geom, res.arg.lon, res.arg.lat)
                < res.arg.distance * res.arg.distance
        /\ res.arg.sort =>
              \A i, j \in 1..Len(res.rows) :
                  i < j => DistanceSq(res.rows[i].geom, res.arg.lon, res.arg.lat)
                           <= DistanceSq(res.rows[j].geom, res.arg.lon, res.arg.lat)

\* a sorted result of two features in which the row written later is the nearer
C13_Witness ==
    /\ res.op = "dwithin" /\ res.ok /\ res.arg.sort
    /\ Len(res.rows) = 2
    /\ res.rows[1].fid > res.rows[2].fid
    /\ DistanceSq(res.rows[1].geom, res.arg.lon, res.arg.lat)
         < DistanceSq(res.rows[2].geom, res.arg.lon, res.arg.lat)

\* C14 as stated: drop_rtree succeeds and leaves no index, whatever was there
\* before; add_rtree succeeds and leaves the complete index, also when the
\* table had it already; hence drop, add, drop, add ends with a complete index.
C14_Idempotent ==
    /\ res.op = "drop_rtree" =>
          res.ok /\ ~db[res.t].has_rtree /\ ~db[res.t].triggers
    /\ res.op = "add_rtree" =>
          res.ok /\ db[res.t].has_rtree /\ db[res.t].triggers

\* C15 as stated: the extension registry lists a table for the R-tree
\* extension exactly when the table has its index with the triggers that keep
\* it synchronized.
C15_RegistryMatchesIndex ==
    \A t \in TableNames : (t \in db.ext) <=> (db[t].has_rtree /\ db[t].triggers)

\* the value a row holds for a column; a column the table does not have yet
\* holds nothing
ColumnOf(r, c) ==
    IF c = "geom" THEN r.geom ELSE IF c \in DOMAIN r.attrs THEN r.attrs[c] ELSE NullV
\* the rows an update addressed: by fid, or by (u, v)
Addressed(r) ==
    IF r.op = "update" THEN {x \in r.before : x.fid = r.arg[1].fid}
    ELSE IF r.op = "update_edges" THEN {x \in r.before : x.key = <<r.arg[1].u, r.arg[1].v>>}
    ELSE {x \in r.before : x.key = <<r.arg[1].n>>}
\* the value the partial attribute set names for a column, as it is stored
Named(r, c) ==
    IF c = "geom" /\ r.op = "update_edges" THEN SerializeGeometry(r.arg[1].d[c])
    ELSE r.arg[1].d[c]
UpdatedOne == res.op \in {"update", "update_edges"} /\ Len(res.arg) = 1

C17_MissingIsNoOp ==
    (res.op \in {"update", "update_edges", "update_nodes"} /\ Len(res.arg) = 1
       /\ Addressed(res) = {}) =>
        /\ res.ok
        /\ {x.fid : x \in db[res.t].rows} = {x.fid : x \in res.before}
        /\ \A old \in res.before, new \in db[res.t].rows :
              old.fid = new.fid =>
                /\ new.key = old.key
                /\ \A c \in {"geom"} \cup AttrNames : ColumnOf(new, c) = ColumnOf(old, c)

\* the rows of the step that the table held before it
Kept(t) == {p \in db[t].rows \X db'[t].rows : p[1].fid = p[2].fid}
\* the rows of the step that the table did not hold before it
Written(t) == {x \in db'[t].rows : \A r \in db[t].rows : r.fid # x.fid}
ColumnsStay(t) == DOMAIN db[t].cols \subseteq DOMAIN db'[t].cols
\* the rows written before a column was added read None in it
OldRowsAbsent(t) ==
    \A c \in DOMAIN db'[t].cols \ DOMAIN db[t].cols :
        \A p \in Kept(t) : p[2].attrs[c] = NullV

\* C18 as stated: a step of a write removes no column; a row written before a
\* column was added reads None in it; a row written without the key of a
\* column reads None in it.
C18_SchemaMonotonic ==
    [][res'.op = "add_edges_from" =>
         /\ \A t \in TableNames : ColumnsStay(t) /\ OldRowsAbsent(t)
         /\ \A x \in Written("edges") : \A c \in DOMAIN x.attrs :
                c \notin DOMAIN res'.arg[1].d => x.attrs[c] = NullV]_vars

\* C18 amended: the same, but in the column _length a row written with a
\* geometry reads the length of the geometry, whether or not it carries the
\* key _length.
C18_SchemaMonotonicButLength ==
    [][res'.op = "add_edges_from" =>
         /\ \A t \in TableNames : ColumnsStay(t) /\ OldRowsAbsent(t)
         /\ \A x \in Written("edges") : \A c \in DOMAIN x.attrs :
                IF c = "_length" /\ "geom" \in DOMAIN res'.arg[1].d
                THEN x.attrs[c] = Haversine(res'.arg[1].d["geom"])
                ELSE c \notin DOMAIN res'.arg[1].d => x.attrs[c] = NullV]_vars

\* the write of an edge with the new key w returned, and a row written before
\* it, without w, is still stored and reads None in the new column
C18_Witness ==
    /\ res.op = "add_edges_from" /\ res.ok
    /\ "w" \in DOMAIN res.arg[1].d
    /\ \E old \in res.before : \E new \in db.edges.rows :
          /\ old.fid = new.fid
          /\ "w" \notin DOMAIN old.attrs
          /\ new.attrs["w"] = NullV

\* C19: after a mutating operation attempted through a read-only view, the
\* operation has failed with ImmutableGraphError and the stored nodes and
\* edges are the ones it found.
C19_ViewsRaiseImmutable ==
    res.op = "view" =>
        /\ last = "ImmutableGraphError"
        /\ db = res.before.db /\ disk = res.before.disk

\* C20: after an attribute was set or deleted on an edge object whose u or v
\* is None, the operation has failed with UninitializedEdgeError, the store
\* is the one it found and the buffer of the edge object is the one it found.
C20_UninitializedEdge ==
    (res.op \in {"edge.__setitem__", "edge.__delitem__"}
       /\ ~Initialized(res.before.edge)) =>
        /\ last = "UninitializedEdgeError"
        /\ db = res.before.db /\ disk = res.before.disk
        /\ edge.delayed_attr = res.before.edge.delayed_attr

\* C21: when an attribute of a stored edge was set to a value through a
\* writable edge mapping of graphs/edges.py, the read of that key that
\* follows returns the value.
C21_WriteThenRead ==
    [][(/\ res.op = "edge.__setitem__" /\ res'.op = "edge.__getitem__"
        /\ res.before.edge.cls \in {"EdgeDict", "Edge"}
        /\ Stored(res.before.db.edges, res.before.edge)
        /\ res.arg[2] # NullV
        /\ res'.arg[1] = res.arg[1])
       => (res'.ok /\ res'.rows = <<res.arg[2]>>)]_vars

\* C22: after an update of one row whose partial attribute set names fid with
\* a value no row holds, every row has the fid it had, and the rows the
\* update addressed do not read the written value as their fid.
C22_FidKept ==
    (UpdatedOne /\ "fid" \in DOMAIN res.arg[1].d) =>
        /\ \A old \in res.before : \E new \in db[res.t].rows :
              new.fid = old.fid /\ new.key = old.key
        /\ \A new \in db[res.t].rows :
              /\ \E old \in res.before : old.fid = new.fid /\ old.key = new.key
              /\ new.fid # res.arg[1].d["fid"].val

\* an update of an edge that names fid and w returned: the row holds the
\* written value of w and the fid it had
C22_Witness ==
    /\ res.op = "update_edges" /\ Len(res.arg) = 1 /\ res.ok
    /\ DOMAIN res.arg[1].d = {"fid", "w"}
    /\ \E old \in Addressed(res) : \E new \in db.edges.rows :
          /\ new.fid = old.fid /\ new.key = old.key
          /\ ColumnOf(old, "w") # res.arg[1].d["w"]
          /\ ColumnOf(new, "w") = res.arg[1].d["w"]

StoredPairs == {r.key : r \in db.edges.rows}

\* C24: the successors of u are the v with a stored row (u, v), the
\* predecessors of v are the u with a stored row (u, v), and graph[u], the
\* successor mapping at u and the adjacency mapping at u list the successors
\* of u.
C24_Neighbours ==
    /\ (res.op = "successor_nodes" /\ res.arg[1] # None) =>
          res.rows = <<{v \in Keys : <<res.arg[1][1], v>> \in StoredPairs}>>
    /\ (res.op = "predecessor_nodes" /\ res.arg[1] # None) =>
          res.rows = <<{u \in Keys : <<u, res.arg[1][1]>> \in StoredPairs}>>
    /\ (res.op = "adjacency" /\ res.arg[1] # "_pred") =>
          /\ res.ok
          /\ res.rows = <<{v \in Keys : <<res.arg[2][1], v>> \in StoredPairs}>>

\* C25: unique_successors(n) is the number of distinct successor keys of n and
\* unique_predecessors(n) the number of distinct predecessor keys of n.
C25_UniqueCounts ==
    /\ (res.op = "unique_successors" /\ res.arg[1] # None) =>
          res.rows = <<Cardinality({v \in Keys : <<res.arg[1][1], v>> \in StoredPairs})>>
    /\ (res.op = "unique_predecessors" /\ res.arg[1] # None) =>
          res.rows = <<Cardinality({u \in Keys : <<u, res.arg[1][1]>> \in StoredPairs})>>

\* C26: get_edge of a pair with no stored edge fails with EdgeNotFound, and
\* get_node of an absent key fails with NodeNotFound.
C26_NotFound ==
    /\ (res.op = "get_edge" /\ <<res.arg[1], res.arg[2]>> \notin StoredPairs) =>
          last = "EdgeNotFound"
    /\ (res.op = "get_node" /\ \A r \in db.nodes.rows : r.key # <<res.arg[1]>>) =>
          last = "NodeNotFound"

\* every item of the list is a tuple of 2 or of 3
WellShaped(edges) == \A i \in DOMAIN edges : Len(edges[i]) \in {2, 3}
\* every attribute value of the list can be stored
Storable(edges) ==
    \A i \in DOMAIN edges :
        Len(edges[i]) >= 3 => \A k \in DOMAIN edges[i][3] : Bindable(edges[i][3][k])

\* C27: ingestion accepts lists of (u, v) and (u, v, attributes) items, mixed
\* or not, and rejects a list with an item of another length with
\* InvalidEdgeShape (in the code: the ValueError "Edge must be 2-tuple of
\* (u, v) or 3-tuple of (u, v, d)"), whenever the attribute values can be
\* stored.
C27_EdgeShapes ==
    (/\ res.op \in {"add_edges", "add_edges_from", "sqlite_add_edges"}
     /\ res.op = "add_edges_from" => res.arg[2] >= 2
     /\ Storable(res.arg[1])) =>
        /\ WellShaped(res.arg[1]) => last = "ok"
        /\ ~WellShaped(res.arg[1]) => last = "ValueError"

\* the row stored for the pair of the i-th item, when the item is the last of
\* its pair in the list
LastOfPair(edges, i) ==
    \A j \in DOMAIN edges : j > i => <<edges[j][1], edges[j][2]>> # <<edges[i][1], edges[i][2]>>

\* C28: when a call of add_edges has default attributes and an edge carries
\* its own value for a key of the defaults, the value stored for that edge is
\* the edge's own value.
C28_OwnValueWins ==
    (res.op \in {"add_edges", "sqlite_add_edges"} /\ last = "ok") =>
        \A i \in DOMAIN res.arg[1] :
            (Len(res.arg[1][i]) = 3 /\ LastOfPair(res.arg[1], i)) =>
                \A k \in DOMAIN res.arg[1][i][3] \cap DOMAIN res.arg[3] :
                    \E r \in db.edges.rows :
                        /\ r.key = <<res.arg[1][i][1], res.arg[1][i][2]>>
                        /\ r.attrs[k] = res.arg[1][i][3][k]

RECURSIVE SeqSum(_)
SeqSum(s) == IF s = <<>> THEN 0 ELSE Head(s) + SeqSum(Tail(s))

\* C29: the counter is called once for every batch of edges the call
\* committed (one executemany and its commit, empty or not), in order, with
\* the number of items of that batch; when the call returns, the counts sum to
\* the number of edges it was given.
C29_CounterPerBatch ==
    (res.op \in {"add_edges_from", "add_edges_batched"} /\ res.arg[4]) =>
        /\ res.rows = res.batches
        /\ last = "ok" => SeqSum(res.rows) = Len(res.arg[1])

\* add_edges_from returned after it committed two batches of different sizes
\* and called the counter for each
C29_Witness ==
    /\ res.op = "add_edges_from" /\ res.arg[4] /\ last = "ok"
    /\ Len(res.rows) = 2 /\ res.rows[1] # res.rows[2]

\* C30: to_in_memory returns an instance, a database of its own, that holds
\* the nodes and the edges of the original with the same attributes.
C30_InMemoryCopy ==
    res.op = "to_in_memory" =>
        /\ res.ok
        /\ res.network.edges.rows = db.edges.rows
        /\ res.network.edges.cols = db.edges.cols
        /\ res.network.nodes.rows = db.nodes.rows

\* C31: serializing a point or a line on a table of any SRID and deserializing
\* the cell gives the type and the coordinates of the geometry.
C31_GeometryRoundTrip ==
    res.op = "deserialize" => res.rows = <<res.arg[2]>>

\* a line of three points with a negative coordinate went through a cell of
\* the largest SRID
C31_Witness ==
    /\ res.op = "deserialize" /\ res.arg[1] = Srid(MaxHalf, MaxHalf)
    /\ res.arg[2].type = "LineString" /\ Len(res.arg[2].coordinates) = 3

\* C32: a cell is the magic "GP", the version byte, the flags byte and the
\* SRID of the table as four little-endian bytes, followed by the bytes of the
\* well-known binary as they are; the header is 8 bytes for every SRID from 0
\* to 2^32 - 1.
C32_CellLayout ==
    res.op = "serialize" =>
        /\ SubSeq(res.rows[1], 1, 4) = <<71, 80, VERSION, EMPTY>>
        /\ from_bytes4(SubSeq(res.rows[1], 5, 8)) = res.arg[1]
        /\ \A i \in 5..8 : res.rows[1][i] \in 0..255
        /\ SubSeq(res.rows[1], 9, Len(res.rows[1])) = WkbDumps(res.arg[2], res.arg[3])
        /\ Len(gp_header(res.arg[1])) = 8

\* a cell of SRID 2^32 - 1 and a cell of SRID 4326 were written
C32_Witness ==
    /\ res.op = "serialize"
    /\ res.arg[1] \in {Srid(MaxHalf, MaxHalf), Srid(0, 4326)}
    /\ SubSeq(res.rows[1], 5, 8) \in {<<255, 255, 255, 255>>, <<230, 16, 0, 0>>}

(***************************************************************************)
(* Finalization and termination of shortest_path.                          *)
(***************************************************************************)
Finalized(s) == DOMAIN s.dist
\* every entry ever pushed has its own count, so the entries popped so far are
\* the pushed ones that are no longer in the fringe
Pushes(s) == s.c
Pops(s) == s.c - Cardinality(s.fringe)
StalePops(s) == Pops(s) - Cardinality(Finalized(s))
\* the step pops an entry whose node is already finalized
PopsStale == st.pc = "loop" /\ st.todo = {} /\ st.fringe # {} /\ Stale(st, HeapMin(st.fringe))
\* the step relaxes an edge: it takes a successor off the list of the for loop
Relaxes == st'.todo # st.todo

\* C33: each node is finalized at most once.  A step never changes the distance
\* or the path of a node that is already finalized, never takes a node out of
\* the finalized ones, and a step that pops an entry of a finalized node only
\* removes that entry: it relaxes no edge, pushes nothing and leaves dist, seen,
\* paths and pred as they are.
C33_FinalizedOnce ==
    [][/\ \A n \in Finalized(st) :
            /\ n \in Finalized(st')
            /\ st'.dist[n] = st.dist[n]
            /\ n \in DOMAIN st.paths /\ n \in DOMAIN st'.paths
            /\ st'.paths[n] = st.paths[n]
       /\ PopsStale =>
            /\ st' = [st EXCEPT !.fringe = @ \ {HeapMin(st.fringe)}, !.u = None]
            /\ ~Relaxes
            /\ Cardinality(Finalized(st')) = Cardinality(Finalized(st))]_vars

\* a stale entry has been popped after two nodes were finalized, one of them
\* reached over an edge
C33_Witness ==
    /\ StalePops(st) > 0
    /\ Cardinality(Finalized(st)) >= 2
    /\ \E n \in Finalized(st) : Len(st.paths[n]) >= 2

(***************************************************************************)
(* The statements of shortest_path run one after the other until the call  *)
(* returns or raises: a step that can be taken is taken.                   *)
(***************************************************************************)
\* the searches of SpecSP without a cutoff or with the cutoff 0, exhaustive or
\* with the first or the last node as target
LiveCutoffs == {None, Some(0)}
LiveTargets == {None, Some(1), Some(NumNodes)}
SPInitLive == SPInit /\ cutoff \in LiveCutoffs /\ target \in LiveTargets
SpecSPLive == SPInitLive /\ [][SPNext]_vars /\ WF_vars(SPNext)

TargetFinalized == target # None /\ target[1] \in Finalized(st)
PushBound == Pushes(st) <= Len(sources) + Cardinality(DOMAIN graph)

\* C34 as stated: for every cost function, negative costs included, the search
\* terminates because the fringe eventually becomes empty or the target is
\* finalized, and it pushes at most (number of sources + number of edges)
\* entries onto the fringe.
C34_Terminates ==
    /\ <>(st.pc = "done" /\ (st.fringe = {} \/ TargetFinalized))
    /\ [](PushBound)

\* C34 as amended: the search terminates for every cost function: it ends when
\* the fringe is empty, when the target is finalized, or with the
\* contradictory-paths error (which can leave entries in the fringe); the
\* pushes are at most (number of sources + number of edges).
C34_TerminatesOrRaises ==
    /\ <>[](/\ st.pc = "done"
            /\ \/ st.fringe = {}
               \/ TargetFinalized
               \/ st.outcome = "ValueError")
    /\ [](PushBound)

\* a search with a negative cost that ended, having pushed as many entries as
\* there are sources and edges
C34_Witness ==
    /\ st.pc = "done"
    /\ \E p \in DOMAIN graph : graph[p] # None /\ graph[p][1] < 0
    /\ Pushes(st) = Len(sources) + Cardinality(DOMAIN graph)
    /\ Cardinality(DOMAIN graph) >= 2

(***************************************************************************)
(* Batches of an ingestion call.                                           *)
(***************************************************************************)
IsBatched == res.op \in {"add_edges", "add_edges_from"} /\ "was" \in DOMAIN res
PairsOf(rows) == {r.key : r \in rows}
InputPairs(items) == {<<items[i][1], items[i][2]>> : i \in 1..Len(items)}
\* some attribute value of the input is of no type a column can have
Unsupported(items) ==
    \E i \in 1..Len(items) : \E k \in DOMAIN items[i][3] \ {"geom"} :
        items[i][3][k].type \notin DOMAIN COL_TYPE_MAP

\* C35: after an ingestion call has returned, whatever the batch size and
\* wherever a new column forced an early flush, the stored (u, v) pairs are the
\* pairs stored before the call and the pairs of the input, no other and none
\* missing, and no pair is stored in two rows.
C35_NoLossNoDuplicate ==
    (IsBatched /\ res.ok) =>
        /\ PairsOf(db.edges.rows) = PairsOf(res.before) \cup InputPairs(res.arg[1])
        /\ Cardinality(db.edges.rows) = Cardinality(PairsOf(db.edges.rows))
        /\ disk.edges.rows = db.edges.rows

\* a call of three edges over two batches, one of them flushed early by a new
\* column, that stored a pair again and a new pair next to a stored one
C35_Witness ==
    /\ IsBatched /\ res.ok
    /\ Len(res.arg[1]) = MaxItems /\ Len(res.batches) >= 2
    /\ res.before # {}
    /\ Cardinality(InputPairs(res.arg[1])) = 2
    /\ \E i \in 2..MaxItems : "w" \in DOMAIN res.arg[1][i][3]
    /\ Cardinality(db.edges.rows) = 2

\* C36: no committed batch of edge rows holds more than batch_size rows, for
\* every batch size of at least 2 and every input length.
C36_BatchSize ==
    (IsBatched /\ res.arg[2] >= 2) =>
        \A i \in 1..Len(res.batches) : res.batches[i] <= res.arg[2]

\* a call with more edges than the batch size that committed a full batch and
\* another one
C36_Witness ==
    /\ IsBatched /\ res.ok /\ res.arg[2] = 2
    /\ Len(res.arg[1]) > res.arg[2]
    /\ \E i \in 1..Len(res.batches) : res.batches[i] = res.arg[2]
    /\ \E i \in 1..Len(res.batches) : res.batches[i] = 1

\* C37: a call whose input fits into one batch and holds an attribute value of
\* an unsupported type fails before a row of the batch is written and before a
\* column is added: the edges table is as the call found it.
C37_InvalidTypeAbortsBatch ==
    (IsBatched /\ res.arg[2] >= 2 /\ Len(res.arg[1]) <= res.arg[2]
       /\ Unsupported(res.arg[1])) =>
        /\ ~res.ok
        /\ db.edges.rows = res.was.edges.rows
        /\ db.edges.cols = res.was.edges.cols

\* C38: at no commit point of an ingestion call is an edge durable whose
\* endpoints are not durable nodes.
C38_EndpointsCommitted ==
    (IsBatched /\ Orphans(res.was) = {}) => res.orphans = {}

\* C39: a node row that existed before an ingestion call is still there after
\* the call returned, with its row id and its point geometry.
C39_NodeUnchanged ==
    (IsBatched /\ res.ok) => res.was.nodes.rows \subseteq db.nodes.rows

(***************************************************************************)
(* The output path during a build.                                         *)
(***************************************************************************)
Published == build.outfile = File(disk) /\ build.pc = "done"

\* C40: at every point of a build, failed or not, the output path holds the
\* whole database it held before the build or the whole newly built one; it is
\* never missing (when there was an output before) and never a part of a file.
C40_OutputProtected ==
    build.pc # "none" => (build.outfile = build.previous \/ Published)
====
